---- MODULE Spec2Model ----
(***************************************************************************)
(* The voucher-discount order pipeline of src/src/index.tsx: the handlers  *)
(* POST /api/orders and POST /api/vouchers/validate and the admin routes   *)
(* for vouchers, products and orders, running against the tables products, *)
(* vouchers and orders of a D1 (SQLite) datastore.                         *)
(* Every datastore statement executes atomically;                          *)
(* a handler is a sequence of such statements, and other requests may run  *)
(* between any two of them.  One action of the model is one statement      *)
(* together with the handler code that runs when its result arrives, up to *)
(* the point where the next statement is issued.                           *)
(***************************************************************************)
EXTENDS Integers, Sequences, FiniteSets, TLC

\* ------------------------------------------------------------------ bounds
MaxReqs  == 2    \* POST /api/orders requests of one run
MaxClock == 3    \* Date.now() runs over 0..MaxClock
MaxLimit == 2    \* usage_limit of the voucher the admin created: 0..MaxLimit

MaxCreates == 2  \* POST /api/admin/vouchers requests of one run
MaxSuffix == 1   \* Math.floor(Math.random() * 100) runs over 0..MaxSuffix

MaxCart == 2     \* items of the cart
MaxQty == 2      \* quantity of a cart item

Reqs == 1..MaxReqs
Creates == 1..MaxCreates

\* ------------------------------------------------------------------ strings
\* A string is a sequence of one-character strings.
Char == {"A", "a", "B", " "}

ToUpperChar(ch) == IF ch = "a" THEN "A" ELSE ch

RECURSIVE TrimStart(_)
TrimStart(s) == IF s # <<>> /\ Head(s) = " " THEN TrimStart(Tail(s)) ELSE s

RECURSIVE TrimEnd(_)
TrimEnd(s) ==
  IF s # <<>> /\ s[Len(s)] = " " THEN TrimEnd(SubSeq(s, 1, Len(s) - 1)) ELSE s

\* String.prototype.trim
Trim(s) == TrimEnd(TrimStart(s))

\* String.prototype.toUpperCase
ToUpperCase(s) == [i \in 1..Len(s) |-> ToUpperChar(s[i])]

\* The code trimmed and left in the case it was typed in.
NormalizeTrimOnly(s) == Trim(s)

\* voucher_code.trim().toUpperCase()
NormalizeCode(s) == ToUpperCase(Trim(s))

\* SQLite's text comparison a <= b (BINARY collation) on digit strings
RECURSIVE TextLeq(_, _)
TextLeq(a, b) ==
  IF a = <<>> THEN TRUE
  ELSE IF b = <<>> THEN FALSE
  ELSE IF Head(a) # Head(b) THEN Head(a) < Head(b)
  ELSE TextLeq(Tail(a), Tail(b))

\* new Date(t).toISOString(): a fixed-width, zero-padded rendering of the time
ToISOString(t) == <<(t \div 10) % 10, t % 10>>

Digits36 ==
  <<"0", "1", "2", "3", "4", "5", "6", "7", "8", "9", "A", "B", "C", "D", "E",
    "F", "G", "H", "I", "J", "K", "L", "M", "N", "O", "P", "Q", "R", "S", "T",
    "U", "V", "W", "X", "Y", "Z">>

\* Number.prototype.toString(36).toUpperCase()
RECURSIVE ToString36(_)
ToString36(n) ==
  IF n < 36 THEN <<Digits36[n + 1]>>
  ELSE ToString36(n \div 36) \o <<Digits36[(n % 36) + 1]>>

\* 'FS' + Date.now().toString(36).toUpperCase()
OrderCodeAt(t) == <<"F", "S">> \o ToString36(t)

\* ------------------------------------------------------------------ rows
\* A row of products (the columns the order pipeline reads).
ProductRow(id, name, price, active) ==
  [id |-> id, name |-> name, price |-> price, is_active |-> active]

\* A row of vouchers as POST /api/admin/vouchers inserts it: used_count takes
\* its column default 0 and is_active is 1.
VoucherRow(id, code, amount, from, to, limit) ==
  [id |-> id, code |-> code, discount_amount |-> amount,
   valid_from |-> from, valid_to |-> to,
   usage_limit |-> limit, used_count |-> 0, is_active |-> 1]

NoProduct == ProductRow(0, "", 0, 0)
NoVoucher == [VoucherRow(0, <<>>, 0, <<>>, <<>>, 0) EXCEPT !.is_active = 0]

\* ------------------------------------------------------------------ inputs
\* quantity of the request body: <<>> when absent or not a number, else <<n>>
Quantities == {<<>>, <<2>>, <<-1>>}

\* voucher_code of the request body (<<>>: absent or empty)
CodeInputs == {<<>>, <<" ">>, <<"a">>, <<"A", " ">>, <<"B">>}

\* product_id of the request body (0: absent, 3: the id of no row)
ProductInputs == {0, 1, 2, 3}

Bodies ==
  [customer_ok : BOOLEAN, product_id : ProductInputs,
   quantity : Quantities, voucher_code : CodeInputs]

NoBody ==
  [customer_ok |-> FALSE, product_id |-> 0, quantity |-> <<>>,
   voucher_code |-> <<>>]

\* discount_amount the admin gave the voucher
Discounts == {2, 7}

\* ------------------------------------------------------------------ state
VARIABLES
  clock,        \* Date.now()
  products,     \* table products
  vouchers,     \* table vouchers
  orders,       \* table orders
  nextOrderId,  \* AUTOINCREMENT of orders.id
  req,          \* the POST /api/orders handlers: position and locals
  vresp,        \* the last response of POST /api/vouchers/validate
  nextVoucherId,\* AUTOINCREMENT of vouchers.id
  cre,          \* the POST /api/admin/vouchers handlers: position and locals
  shop          \* the storefront page of one browser: its script's variables

vars == <<clock, products, vouchers, orders, nextOrderId, req, vresp,
          nextVoucherId, cre, shop>>

NoResp ==
  [status |-> 0, success |-> FALSE, error |-> "", order_code |-> <<>>,
   id |-> 0, discount |-> 0, total |-> 0]

ErrorResp(status, error) ==
  [NoResp EXCEPT !.status = status, !.error = error]

IdleReq ==
  [pc |-> "idle", body |-> NoBody, product |-> NoProduct, qty |-> 0,
   discount |-> 0, now |-> <<>>, voucher |-> NoVoucher, total |-> 0,
   orderCode |-> <<>>, resp |-> NoResp]

NoValidate ==
  [code |-> <<>>, now |-> <<>>, status |-> 0, error |-> "", id |-> 0,
   vcode |-> <<>>, discount_amount |-> 0]

CreateResp(status, id, code) == [status |-> status, id |-> id, code |-> code]

NoCreateBody ==
  [custom_code |-> <<>>, discount_amount |-> 0, valid_from |-> <<>>,
   valid_to |-> <<>>, usage_limit |-> <<>>]

IdleCreate ==
  [pc |-> "idle", body |-> NoCreateBody, code |-> <<>>, resp |-> CreateResp(0, 0, <<>>)]

\* appliedVoucher = null
NoApplied == [id |-> 0, code |-> <<>>, discount_amount |-> 0]

\* The script's variables when the page has been loaded in a browser with an
\* empty cart: let allProducts = [], currentProduct = null, appliedVoucher =
\* null, cart = [], cartStep = 1, ckAppliedVoucher = null. order and cartOpen
\* say which overlay is shown, sending and ckSending which submit button is
\* disabled; slot and ckSlot name the request the script awaits; checkedItems,
\* next and codes are the locals of submitCartOrder; ckTotal is the text of
\* the checkout total.
FreshPage ==
  [loaded |-> FALSE, allProducts |-> {}, currentProduct |-> NoProduct,
   appliedVoucher |-> NoApplied, order |-> "closed", sending |-> FALSE, slot |-> 0,
   cart |-> <<>>, cartOpen |-> FALSE, cartStep |-> 1, ckAppliedVoucher |-> NoApplied,
   ckTotal |-> 0, ckSending |-> FALSE, ckSlot |-> 0, checkedItems |-> <<>>,
   next |-> 0, codes |-> <<>>]

\* ------------------------------------------------------------------ handler code
\* !customer_name || !customer_phone || !customer_address || !product_id
MissingFields(body) == ~body.customer_ok \/ body.product_id = 0

\* The product SELECT without its is_active=1 condition.
SelectAnyProduct(ps, id) == {p \in ps : p.id = id}

\* SELECT * FROM products WHERE id=? AND is_active=1
SelectActiveProduct(ps, id) == {p \in ps : p.id = id /\ p.is_active = 1}

\* parseInt(quantity) || 1
QtyOf(quantity) ==
  IF quantity = <<>> \/ quantity[1] = 0 THEN 1 ELSE quantity[1]

\* voucher_code && voucher_code.trim()
HasVoucherCode(code) == code # <<>> /\ Trim(code) # <<>>

\* The voucher query with the end of the window excluded (valid_to > now).
SelectVoucherExclusiveEnd(vs, code, now) ==
  {v \in vs : /\ v.code = code
              /\ v.is_active = 1
              /\ TextLeq(v.valid_from, now)
              /\ TextLeq(now, v.valid_to) /\ now # v.valid_to}

\* SELECT * FROM vouchers WHERE code=? AND is_active=1 AND valid_from<=? AND valid_to>=?
SelectVoucher(vs, code, now) ==
  {v \in vs : /\ v.code = code
              /\ v.is_active = 1
              /\ TextLeq(v.valid_from, now)
              /\ TextLeq(now, v.valid_to)}

\* The limit check without its usage_limit > 0 guard: 0 is a limit of zero uses.
LimitReachedZeroIsLimit(v) == v.used_count >= v.usage_limit

\* The limit check off by one (used_count > usage_limit).
LimitReachedStrict(v) == v.usage_limit > 0 /\ v.used_count > v.usage_limit

\* voucher.usage_limit > 0 && voucher.used_count >= voucher.usage_limit
LimitReached(v) == v.usage_limit > 0 /\ v.used_count >= v.usage_limit

\* UPDATE vouchers SET used_count=used_count+1 WHERE id=?
IncrementUsed(vs, id) ==
  {IF v.id = id THEN [v EXCEPT !.used_count = v.used_count + 1] ELSE v : v \in vs}

Max(a, b) == IF a >= b THEN a ELSE b

\* A total without the clamp at 0.
OrderTotalUnclamped(price, qty, discount) == price * qty - discount

\* subtotal = product.price * qty; total = Math.max(0, subtotal - discount)
OrderTotal(price, qty, discount) == Max(0, price * qty - discount)

\* voucher_code ? voucher_code.trim().toUpperCase() : ''
\* The code stored as the request carried it.
StoredVoucherCodeAsTyped(code) == code

StoredVoucherCode(code) == IF code # <<>> THEN NormalizeCode(code) ELSE <<>>

\* ------------------------------------------------------------------ Init
\* The tables after the admin has created two products (one of them switched
\* off again) and one voucher, before any order request.
ValidFrom == 1
ValidTo == 2

Init ==
  /\ clock = 0
  /\ products = {ProductRow(1, "Shirt", 3, 1), ProductRow(2, "Hat", 5, 0)}
  /\ \E amount \in Discounts, limit \in 0..MaxLimit :
       vouchers = {VoucherRow(1, <<"A">>, amount, ToISOString(ValidFrom),
                              ToISOString(ValidTo), limit)}
  /\ orders = {}
  /\ nextOrderId = 1
  /\ req = [r \in Reqs |-> IdleReq]
  /\ vresp = NoValidate
  /\ nextVoucherId = 2
  /\ cre = [c \in Creates |-> IdleCreate]
  /\ shop = FreshPage

\* ------------------------------------------------------------------ POST /api/orders
\* The handler has returned: its response is left, and the voucher row it
\* had read (its other locals are dropped).
Done(voucher, resp) ==
  [IdleReq EXCEPT !.pc = "done", !.voucher = voucher, !.resp = resp]

\* return c.json({ success: false, error }, status)
Respond(r, status, error) ==
  req' = [req EXCEPT ![r] = Done(req[r].voucher, ErrorResp(status, error))]

\* The request arrives: the body is parsed and the required fields are checked.
Arrive(r, bodies) ==
  /\ req[r].pc = "idle"
  /\ r > 1 => req[r - 1].pc # "idle"
  /\ \E body \in bodies :
       IF MissingFields(body)
       THEN Respond(r, 400, "Missing required fields")
       ELSE req' = [req EXCEPT ![r].pc = "product", ![r].body = body]

\* A request of any client.
ReceiveFrom(r, bodies) ==
  /\ Arrive(r, bodies)
  /\ UNCHANGED <<clock, products, vouchers, orders, nextOrderId, vresp,
                 nextVoucherId, cre, shop>>

Receive(r) == ReceiveFrom(r, Bodies)

\* The order code and total computed right before the INSERT is issued.
Priced(q, discount) ==
  [q EXCEPT !.pc = "insert",
            !.discount = discount,
            !.total = OrderTotal(q.product.price, q.qty, discount),
            !.orderCode = OrderCodeAt(clock)]

\* The product SELECT returns; without a voucher code the handler goes on to
\* the INSERT, with one it reads the time and issues the voucher SELECT.
LookupProduct(r) ==
  /\ req[r].pc = "product"
  /\ LET found == SelectActiveProduct(products, req[r].body.product_id) IN
       IF found = {}
       THEN Respond(r, 404, "Product not found")
       ELSE LET product == CHOOSE p \in found : TRUE
                q == [req[r] EXCEPT !.product = product,
                                    !.qty = QtyOf(req[r].body.quantity)]
            IN IF HasVoucherCode(req[r].body.voucher_code)
               THEN req' = [req EXCEPT ![r] = [q EXCEPT !.pc = "voucher",
                                                        !.now = ToISOString(clock)]]
               ELSE req' = [req EXCEPT ![r] = Priced(q, 0)]
  /\ UNCHANGED <<clock, products, vouchers, orders, nextOrderId, vresp,
                 nextVoucherId, cre, shop>>

\* The voucher step with the increment issued before the limit is checked.
ReadVoucherIncrementFirst(r) ==
  /\ req[r].pc = "voucher"
  /\ LET found == SelectVoucher(vouchers, NormalizeCode(req[r].body.voucher_code),
                                req[r].now)
     IN IF found = {}
        THEN Respond(r, 400, "INVALID_VOUCHER") /\ UNCHANGED vouchers
        ELSE LET voucher == CHOOSE v \in found : TRUE IN
             /\ vouchers' = IncrementUsed(vouchers, voucher.id)
             /\ IF LimitReached(voucher)
                THEN req' = [req EXCEPT ![r] =
                               Done(voucher, ErrorResp(400, "VOUCHER_LIMIT"))]
                ELSE req' = [req EXCEPT ![r] =
                               Priced([req[r] EXCEPT !.voucher = voucher],
                                      voucher.discount_amount)]
  /\ UNCHANGED <<clock, products, orders, nextOrderId, vresp, nextVoucherId, cre, shop>>

\* A voucher step whose limit check lets the use that equals the limit pass.
ReadVoucherStrictLimit(r) ==
  /\ req[r].pc = "voucher"
  /\ LET found == SelectVoucher(vouchers, NormalizeCode(req[r].body.voucher_code),
                                req[r].now)
     IN IF found = {}
        THEN Respond(r, 400, "INVALID_VOUCHER")
        ELSE LET voucher == CHOOSE v \in found : TRUE IN
             IF LimitReachedStrict(voucher)
             THEN req' = [req EXCEPT ![r] =
                            Done(voucher, ErrorResp(400, "VOUCHER_LIMIT"))]
             ELSE req' = [req EXCEPT ![r].pc = "increment", ![r].voucher = voucher,
                                     ![r].discount = voucher.discount_amount]
  /\ UNCHANGED <<clock, products, vouchers, orders, nextOrderId, vresp,
                 nextVoucherId, cre, shop>>

\* A voucher step that goes on without a discount when the code is refused.
ReadVoucherFallsBack(r) ==
  /\ req[r].pc = "voucher"
  /\ LET found == SelectVoucher(vouchers, NormalizeCode(req[r].body.voucher_code),
                                req[r].now)
     IN IF found = {}
        THEN req' = [req EXCEPT ![r] = Priced(req[r], 0)]
        ELSE LET voucher == CHOOSE v \in found : TRUE IN
             IF LimitReached(voucher)
             THEN req' = [req EXCEPT ![r] = Priced(req[r], 0)]
             ELSE req' = [req EXCEPT ![r].pc = "increment", ![r].voucher = voucher,
                                     ![r].discount = voucher.discount_amount]
  /\ UNCHANGED <<clock, products, vouchers, orders, nextOrderId, vresp,
                 nextVoucherId, cre, shop>>

\* The voucher SELECT returns and the limit is checked.
ReadVoucher(r) ==
  /\ req[r].pc = "voucher"
  /\ LET found == SelectVoucher(vouchers, NormalizeCode(req[r].body.voucher_code),
                                req[r].now)
     IN IF found = {}
        THEN Respond(r, 400, "INVALID_VOUCHER")
        ELSE LET voucher == CHOOSE v \in found : TRUE IN
             IF LimitReached(voucher)
             THEN req' = [req EXCEPT ![r] =
                            Done(voucher, ErrorResp(400, "VOUCHER_LIMIT"))]
             ELSE req' = [req EXCEPT ![r].pc = "increment", ![r].voucher = voucher,
                                     ![r].discount = voucher.discount_amount]
  /\ UNCHANGED <<clock, products, vouchers, orders, nextOrderId, vresp,
                 nextVoucherId, cre, shop>>

\* An increment the handler computes from the row it read: used_count is
\* set to the value read plus one.
IncrementVoucherFromRead(r) ==
  /\ req[r].pc = "increment"
  /\ vouchers' = {IF v.id = req[r].voucher.id
                  THEN [v EXCEPT !.used_count = req[r].voucher.used_count + 1]
                  ELSE v : v \in vouchers}
  /\ req' = [req EXCEPT ![r] = Priced(req[r], req[r].discount)]
  /\ UNCHANGED <<clock, products, orders, nextOrderId, vresp, nextVoucherId, cre, shop>>

\* An UPDATE that is refused when the voucher is no longer an active row.
IncrementVoucherChecksRow(r) ==
  /\ req[r].pc = "increment"
  /\ IF \E v \in vouchers : v.id = req[r].voucher.id /\ v.is_active = 1
     THEN /\ vouchers' = IncrementUsed(vouchers, req[r].voucher.id)
          /\ req' = [req EXCEPT ![r] = Priced(req[r], req[r].discount)]
     ELSE /\ Respond(r, 400, "INVALID_VOUCHER")
          /\ UNCHANGED vouchers
  /\ UNCHANGED <<clock, products, orders, nextOrderId, vresp, nextVoucherId, cre, shop>>

\* The UPDATE of used_count executes; the handler then prices the order.
IncrementVoucher(r) ==
  /\ req[r].pc = "increment"
  /\ vouchers' = IncrementUsed(vouchers, req[r].voucher.id)
  /\ req' = [req EXCEPT ![r] = Priced(req[r], req[r].discount)]
  /\ UNCHANGED <<clock, products, orders, nextOrderId, vresp, nextVoucherId, cre, shop>>

\* The row of the first version of the handler, which knows no vouchers:
\* total = product.price * qty, and no voucher_code or discount_amount column.
LegacyOrderRow(id, orderCode, product, qty) ==
  [id |-> id, order_code |-> orderCode, product_id |-> product.id,
   product_name |-> product.name, product_price |-> product.price,
   quantity |-> qty, total_price |-> product.price * qty, status |-> "pending"]

\* The row of the handler that knows no vouchers: no code, no discount.
OrderRowWithoutVoucher(id, q) ==
  [id |-> id, order_code |-> q.orderCode, product_id |-> q.body.product_id,
   product_name |-> q.product.name, product_price |-> q.product.price,
   quantity |-> q.qty, total_price |-> q.total,
   voucher_code |-> <<>>, discount_amount |-> 0, status |-> "pending"]

\* A row that takes the name and price of the product row as it is when the
\* INSERT executes.
OrderRowCurrentProduct(id, q) ==
  LET now == {p \in products : p.id = q.product.id}
      product == IF now = {} THEN q.product ELSE CHOOSE p \in now : TRUE
  IN [id |-> id, order_code |-> q.orderCode, product_id |-> q.body.product_id,
      product_name |-> product.name, product_price |-> product.price,
      quantity |-> q.qty, total_price |-> q.total,
      voucher_code |-> StoredVoucherCode(q.body.voucher_code),
      discount_amount |-> q.discount, status |-> "pending"]

\* The row the INSERT binds.
OrderRow(id, q) ==
  [id |-> id, order_code |-> q.orderCode, product_id |-> q.body.product_id,
   product_name |-> q.product.name, product_price |-> q.product.price,
   quantity |-> q.qty, total_price |-> q.total,
   voucher_code |-> StoredVoucherCode(q.body.voucher_code),
   discount_amount |-> q.discount, status |-> "pending"]

\* An INSERT that is tried again with a new order code when it fails.
InsertOrderRetry(r) ==
  /\ req[r].pc = "insert"
  /\ IF \E o \in orders : o.order_code = req[r].orderCode
     THEN /\ req' = [req EXCEPT ![r].orderCode = OrderCodeAt(clock)]
          /\ UNCHANGED <<orders, nextOrderId>>
     ELSE /\ orders' = orders \cup {OrderRow(nextOrderId, req[r])}
          /\ nextOrderId' = nextOrderId + 1
          /\ req' = [req EXCEPT ![r] =
                       Done(req[r].voucher,
                            [status |-> 200, success |-> TRUE, error |-> "",
                             order_code |-> req[r].orderCode, id |-> nextOrderId,
                             discount |-> req[r].discount, total |-> req[r].total])]
  /\ UNCHANGED <<clock, products, vouchers, vresp, nextVoucherId, cre, shop>>

\* An INSERT into a table whose order_code is not UNIQUE.
InsertOrderNoUnique(r) ==
  /\ req[r].pc = "insert"
  /\ orders' = orders \cup {OrderRow(nextOrderId, req[r])}
  /\ nextOrderId' = nextOrderId + 1
  /\ req' = [req EXCEPT ![r] =
               Done(req[r].voucher,
                    [status |-> 200, success |-> TRUE, error |-> "",
                     order_code |-> req[r].orderCode, id |-> nextOrderId,
                     discount |-> req[r].discount, total |-> req[r].total])]
  /\ UNCHANGED <<clock, products, vouchers, vresp, nextVoucherId, cre, shop>>

\* An INSERT whose failure is swallowed: the handler answers success.
InsertOrderSwallowsError(r) ==
  /\ req[r].pc = "insert"
  /\ IF \E o \in orders : o.order_code = req[r].orderCode
     THEN UNCHANGED <<orders, nextOrderId>>
     ELSE /\ orders' = orders \cup {OrderRow(nextOrderId, req[r])}
          /\ nextOrderId' = nextOrderId + 1
  /\ req' = [req EXCEPT ![r] =
               Done(req[r].voucher,
                    [status |-> 200, success |-> TRUE, error |-> "",
                     order_code |-> req[r].orderCode, id |-> nextOrderId,
                     discount |-> req[r].discount, total |-> req[r].total])]
  /\ UNCHANGED <<clock, products, vouchers, vresp, nextVoucherId, cre, shop>>

\* An INSERT whose failure is followed by a compensating decrement.
InsertOrderRollback(r) ==
  /\ req[r].pc = "insert"
  /\ IF \E o \in orders : o.order_code = req[r].orderCode
     THEN /\ Respond(r, 500, "UNIQUE constraint failed: orders.order_code")
          /\ vouchers' =
               {IF v.id = req[r].voucher.id
                THEN [v EXCEPT !.used_count = v.used_count - 1] ELSE v : v \in vouchers}
          /\ UNCHANGED <<orders, nextOrderId>>
     ELSE /\ orders' = orders \cup {OrderRow(nextOrderId, req[r])}
          /\ nextOrderId' = nextOrderId + 1
          /\ req' = [req EXCEPT ![r] =
                       Done(req[r].voucher,
                            [status |-> 200, success |-> TRUE, error |-> "",
                             order_code |-> req[r].orderCode, id |-> nextOrderId,
                             discount |-> req[r].discount, total |-> req[r].total])]
          /\ UNCHANGED vouchers
  /\ UNCHANGED <<clock, products, vresp, nextVoucherId, cre, shop>>

\* The INSERT executes: order_code is UNIQUE, so a second row with the same
\* code makes the statement throw, and the catch block answers 500.
InsertOrder(r) ==
  /\ req[r].pc = "insert"
  /\ IF \E o \in orders : o.order_code = req[r].orderCode
     THEN /\ Respond(r, 500, "UNIQUE constraint failed: orders.order_code")
          /\ UNCHANGED <<orders, nextOrderId>>
     ELSE /\ orders' = orders \cup {OrderRow(nextOrderId, req[r])}
          /\ nextOrderId' = nextOrderId + 1
          /\ req' = [req EXCEPT ![r] =
                       Done(req[r].voucher,
                            [status |-> 200, success |-> TRUE, error |-> "",
                             order_code |-> req[r].orderCode,
                                 id |-> nextOrderId,
                                 discount |-> req[r].discount,
                                 total |-> req[r].total])]
  /\ UNCHANGED <<clock, products, vouchers, vresp, nextVoucherId, cre, shop>>

\* ------------------------------------------------------------------ POST /api/vouchers/validate
\* The handler reads the time, then its SELECT executes: now is the time of
\* the read, which is not later than the time the SELECT sees the table.
ValidateResult(vs, code, now) ==
  LET base == [NoValidate EXCEPT !.code = code, !.now = now] IN
  IF code = <<>>
  THEN [base EXCEPT !.status = 400, !.error = "MISSING_CODE"]
  ELSE LET found == SelectVoucher(vs, NormalizeCode(code), now) IN
       IF found = {}
       THEN [base EXCEPT !.status = 400, !.error = "INVALID_VOUCHER"]
       ELSE LET voucher == CHOOSE v \in found : TRUE IN
            IF LimitReached(voucher)
            THEN [base EXCEPT !.status = 400, !.error = "VOUCHER_LIMIT"]
            ELSE [base EXCEPT !.status = 200, !.id = voucher.id,
                              !.vcode = voucher.code,
                              !.discount_amount = voucher.discount_amount]

\* A validate that takes a use of the voucher it accepts.
ValidateConsumes ==
  /\ \E code \in CodeInputs, t \in 0..clock :
       /\ vresp' = ValidateResult(vouchers, code, ToISOString(t))
       /\ vouchers' = IF vresp'.status = 200
                      THEN IncrementUsed(vouchers, vresp'.id) ELSE vouchers
  /\ UNCHANGED <<clock, products, orders, nextOrderId, req, nextVoucherId, cre, shop>>

\* The handler runs for one of the codes.
ValidateCall(codes) ==
  \E code \in codes, t \in 0..clock :
    vresp' = ValidateResult(vouchers, code, ToISOString(t))

\* A validate call of any client.
ValidateFrom(codes) ==
  /\ ValidateCall(codes)
  /\ UNCHANGED <<clock, products, vouchers, orders, nextOrderId, req,
                 nextVoucherId, cre, shop>>

Validate == ValidateFrom(CodeInputs)

\* ------------------------------------------------------------------ admin, time
\* A switch that also starts the count of uses again.
ToggleActiveResetsCount(vs, id) ==
  {IF v.id = id THEN [v EXCEPT !.is_active = IF v.is_active = 1 THEN 0 ELSE 1,
                               !.used_count = 0]
   ELSE v : v \in vs}

\* UPDATE vouchers SET is_active = CASE WHEN is_active=1 THEN 0 ELSE 1 END WHERE id=?
ToggleActive(vs, id) ==
  {IF v.id = id THEN [v EXCEPT !.is_active = IF v.is_active = 1 THEN 0 ELSE 1]
   ELSE v : v \in vs}

ToggleVoucher ==
  /\ \E v \in vouchers : vouchers' = ToggleActive(vouchers, v.id)
  /\ UNCHANGED <<clock, products, orders, nextOrderId, req, vresp, nextVoucherId, cre,
                 shop>>

\* DELETE FROM vouchers WHERE id=?
DeleteVoucher ==
  /\ \E v \in vouchers : vouchers' = vouchers \ {v}
  /\ UNCHANGED <<clock, products, orders, nextOrderId, req, vresp,
                 nextVoucherId, cre, shop>>

\* GET /api/admin/vouchers: SELECT * FROM vouchers, nothing is written.
ListVouchers ==
  /\ vouchers # {}
  /\ UNCHANGED vars

\* ------------------------------------------------------------------ admin: products, orders
\* The body of PUT /api/admin/products/:id: a new name and price, with
\* is_active left out (<<>>).
ProductEdits ==
  {[name |-> "Tee", price |-> 4, is_active |-> <<>>]}

\* is_active !== undefined ? (is_active ? 1 : 0) : 1
ActiveOf(is_active) ==
  IF is_active # <<>> THEN (IF is_active[1] # 0 THEN 1 ELSE 0) ELSE 1

\* An edit that rewrites the product columns of the orders of the product.
UpdateProductCascade ==
  /\ \E p \in products, e \in ProductEdits :
       /\ products' = {IF q.id = p.id
                       THEN [q EXCEPT !.name = e.name, !.price = e.price,
                                      !.is_active = ActiveOf(e.is_active)]
                       ELSE q : q \in products}
       /\ orders' = {IF o.product_id = p.id
                     THEN [o EXCEPT !.product_name = e.name, !.product_price = e.price]
                     ELSE o : o \in orders}
  /\ UNCHANGED <<clock, vouchers, nextOrderId, req, vresp, nextVoucherId, cre, shop>>

\* UPDATE products SET name=?, price=?, ..., is_active=? WHERE id=?
UpdateProduct ==
  /\ \E p \in products, e \in ProductEdits :
       products' = {IF q.id = p.id
                    THEN [q EXCEPT !.name = e.name, !.price = e.price,
                                   !.is_active = ActiveOf(e.is_active)]
                    ELSE q : q \in products}
  /\ UNCHANGED <<clock, vouchers, orders, nextOrderId, req, vresp, nextVoucherId, cre,
                 shop>>

\* DELETE FROM products WHERE id = ?
DeleteProduct ==
  /\ \E p \in products : products' = products \ {p}
  /\ UNCHANGED <<clock, vouchers, orders, nextOrderId, req, vresp, nextVoucherId, cre,
                 shop>>

\* UPDATE products SET is_active = CASE WHEN is_active=1 THEN 0 ELSE 1 END WHERE id=?
ToggleProduct ==
  /\ \E p \in products :
       products' = {IF q.id = p.id
                    THEN [q EXCEPT !.is_active = IF q.is_active = 1 THEN 0 ELSE 1]
                    ELSE q : q \in products}
  /\ UNCHANGED <<clock, vouchers, orders, nextOrderId, req, vresp, nextVoucherId, cre,
                 shop>>

\* The status the admin screen sends.
Statuses == {"confirmed"}

\* UPDATE orders SET status=?, updated_at=CURRENT_TIMESTAMP WHERE id=?
UpdateOrderStatus ==
  /\ \E o \in orders, status \in Statuses :
       orders' = {IF x.id = o.id THEN [x EXCEPT !.status = status] ELSE x : x \in orders}
  /\ UNCHANGED <<clock, products, vouchers, nextOrderId, req, vresp, nextVoucherId, cre,
                 shop>>

\* DELETE FROM orders WHERE id = ?
DeleteOrder ==
  /\ \E o \in orders : orders' = orders \ {o}
  /\ UNCHANGED <<clock, products, vouchers, nextOrderId, req, vresp, nextVoucherId, cre,
                 shop>>

\* ------------------------------------------------------------------ POST /api/admin/vouchers
\* The bodies of the request: a custom code (one of spaces is a code too) or
\* none, the amount (0 is a missing field), the window, a limit or none.
CustomCodes == {<<>>, <<" ">>, <<"a">>, <<"A", " ">>}

CreateBodies ==
  [custom_code : CustomCodes, discount_amount : {0, 2},
   valid_from : {ToISOString(ValidFrom)}, valid_to : {ToISOString(ValidTo)},
   usage_limit : {<<>>, <<1>>}]

\* Math.random().toString(36).substring(2, 7): base-36 digits, lower case.
RandomTails == {<<"a">>, <<"0">>}

\* !discount_amount || !valid_from || !valid_to
MissingVoucherFields(body) ==
  body.discount_amount = 0 \/ body.valid_from = <<>> \/ body.valid_to = <<>>

\* custom_code ? custom_code.trim().toUpperCase() : 'FASHION' + random.toUpperCase()
CreateCode(custom_code, tail) ==
  IF custom_code # <<>>
  THEN ToUpperCase(Trim(custom_code))
  ELSE <<"F", "A", "S", "H", "I", "O", "N">> \o ToUpperCase(tail)

\* String(n) of the number appended to a code that exists: n < 100.
DecimalString(n) ==
  IF n < 10 THEN <<Digits36[n + 1]>>
  ELSE <<Digits36[(n \div 10) + 1], Digits36[(n % 10) + 1]>>

\* parseInt(usage_limit) || 0
LimitOf(usage_limit) == IF usage_limit = <<>> THEN 0 ELSE usage_limit[1]

CreateDone(c, status, id, code) ==
  cre' = [cre EXCEPT ![c] = [IdleCreate EXCEPT !.pc = "done",
                                               !.resp = CreateResp(status, id, code)]]

\* The request arrives; the fields are checked, the code is chosen and the
\* SELECT for an existing row is issued.
ReceiveCreateFrom(c, bodies) ==
  /\ cre[c].pc = "idle"
  /\ c > 1 => cre[c - 1].pc # "idle"
  /\ \E body \in bodies, tail \in RandomTails :
       IF MissingVoucherFields(body)
       THEN CreateDone(c, 400, 0, <<>>)
       ELSE cre' = [cre EXCEPT ![c].pc = "select", ![c].body = body,
                               ![c].code = CreateCode(body.custom_code, tail)]
  /\ UNCHANGED <<clock, products, vouchers, orders, nextOrderId, req, vresp,
                 nextVoucherId, shop>>

ReceiveCreate(c) == ReceiveCreateFrom(c, CreateBodies)

\* SELECT id FROM vouchers WHERE code=? returns; a code that exists gets a
\* random number appended.
SelectExisting(c) ==
  /\ cre[c].pc = "select"
  /\ IF \E v \in vouchers : v.code = cre[c].code
     THEN \E n \in 0..MaxSuffix :
            cre' = [cre EXCEPT ![c].pc = "insert",
                               ![c].code = cre[c].code \o DecimalString(n)]
     ELSE cre' = [cre EXCEPT ![c].pc = "insert"]
  /\ UNCHANGED <<clock, products, vouchers, orders, nextOrderId, req, vresp,
                 nextVoucherId, shop>>

\* An INSERT that the table takes whatever codes it holds.
InsertVoucherNoUnique(c) ==
  /\ cre[c].pc = "insert"
  /\ vouchers' = vouchers \cup
       {VoucherRow(nextVoucherId, cre[c].code, cre[c].body.discount_amount,
                   cre[c].body.valid_from, cre[c].body.valid_to,
                   LimitOf(cre[c].body.usage_limit))}
  /\ nextVoucherId' = nextVoucherId + 1
  /\ CreateDone(c, 200, nextVoucherId, cre[c].code)
  /\ UNCHANGED <<clock, products, orders, nextOrderId, req, vresp, shop>>

\* The INSERT executes: code is UNIQUE, so a row with a code that exists
\* makes the statement throw, and the catch block answers 500.
InsertVoucher(c) ==
  /\ cre[c].pc = "insert"
  /\ IF \E v \in vouchers : v.code = cre[c].code
     THEN /\ CreateDone(c, 500, 0, <<>>)
          /\ UNCHANGED <<vouchers, nextVoucherId>>
     ELSE /\ vouchers' = vouchers \cup
               {VoucherRow(nextVoucherId, cre[c].code, cre[c].body.discount_amount,
                           cre[c].body.valid_from, cre[c].body.valid_to,
                           LimitOf(cre[c].body.usage_limit))}
          /\ nextVoucherId' = nextVoucherId + 1
          /\ CreateDone(c, 200, nextVoucherId, cre[c].code)
  /\ UNCHANGED <<clock, products, orders, nextOrderId, req, vresp, shop>>

Tick ==
  /\ clock < MaxClock
  /\ clock' = clock + 1
  /\ UNCHANGED <<products, vouchers, orders, nextOrderId, req, vresp,
                 nextVoucherId, cre, shop>>

\* ------------------------------------------------------------------ storefront
\* What the customer types into a voucher field.
TypedCodes == {<<" ">>, <<"a">>}

\* input.value.trim().toUpperCase()
TypedCode(typed) == ToUpperCase(Trim(typed))

\* res.data.data of a successful validate, null after a failed one.
AppliedFrom(res) ==
  IF res.status = 200
  THEN [id |-> res.id, code |-> res.vcode, discount_amount |-> res.discount_amount]
  ELSE NoApplied

\* The body the storefront posts: the form fields have passed the client's
\* checks, voucher_code is applied ? applied.code : ''.
StoreBody(productId, qty, applied) ==
  [customer_ok |-> TRUE, product_id |-> productId, quantity |-> <<qty>>,
   voucher_code |-> applied.code]

\* loadProducts at the end of the script: GET /api/products lists the active
\* products.
LoadProducts ==
  /\ ~shop.loaded
  /\ shop' = [shop EXCEPT !.loaded = TRUE,
                          !.allProducts = {p.id : p \in {q \in products : q.is_active = 1}}]
  /\ UNCHANGED <<clock, products, vouchers, orders, nextOrderId, req, vresp,
                 nextVoucherId, cre>>

\* openOrder(id) from a product card: GET /api/products/:id returns the row
\* whether active or not; the applied voucher is reset.
OpenOrder ==
  /\ shop.order = "closed" /\ ~shop.cartOpen
  /\ \E id \in shop.allProducts :
       LET found == {p \in products : p.id = id} IN
       /\ found # {}
       /\ shop' = [shop EXCEPT !.currentProduct = CHOOSE p \in found : TRUE,
                               !.appliedVoucher = NoApplied,
                               !.order = "open"]
  /\ UNCHANGED <<clock, products, vouchers, orders, nextOrderId, req, vresp,
                 nextVoucherId, cre>>

\* applyVoucher: an empty field is refused by the script, any other code is
\* sent to validate, and the answer decides appliedVoucher.
ApplyVoucher ==
  /\ shop.order = "open"
  /\ \E typed \in TypedCodes :
       IF TypedCode(typed) = <<>>
       THEN UNCHANGED <<vresp, shop>>
       ELSE /\ ValidateCall({TypedCode(typed)})
            /\ shop' = [shop EXCEPT !.appliedVoucher = AppliedFrom(vresp')]
  /\ UNCHANGED <<clock, products, vouchers, orders, nextOrderId, req,
                 nextVoucherId, cre>>

\* submitOrder up to its await: the button is disabled and the request sent.
SubmitOrder ==
  /\ shop.order = "open" /\ ~shop.sending
  /\ \E r \in Reqs :
       /\ Arrive(r, {StoreBody(shop.currentProduct.id, 1, shop.appliedVoucher)})
       /\ shop' = [shop EXCEPT !.sending = TRUE, !.slot = r]
  /\ UNCHANGED <<clock, products, vouchers, orders, nextOrderId, vresp,
                 nextVoucherId, cre>>

\* submitOrder after its await: success closes the popup, a voucher error
\* resets the applied voucher, any other error leaves it.
OrderAnswered ==
  /\ shop.sending /\ req[shop.slot].pc = "done"
  /\ LET resp == req[shop.slot].resp
         page == [shop EXCEPT !.sending = FALSE]
     IN shop' = IF resp.success
                THEN [page EXCEPT !.order = "closed"]
                ELSE IF resp.error \in {"INVALID_VOUCHER", "VOUCHER_LIMIT"}
                     THEN [page EXCEPT !.appliedVoucher = NoApplied]
                     ELSE page
  /\ UNCHANGED <<clock, products, vouchers, orders, nextOrderId, req, vresp,
                 nextVoucherId, cre>>

\* A cart item of a product, added with quantity 1.
CartItem(product) ==
  [productId |-> product.id, price |-> product.price, qty |-> 1, checked |-> TRUE]

\* addToCartFromCard(id): GET /api/products/:id, then addToCart(p, '', '', 1),
\* which raises the quantity of the item of that product or pushes a new item.
AddToCartFromCard ==
  /\ shop.order = "closed" /\ ~shop.cartOpen
  /\ \E id \in shop.allProducts :
       LET found == {p \in products : p.id = id}
           exist == {k \in 1..Len(shop.cart) : shop.cart[k].productId = id}
       IN /\ found # {}
          /\ IF exist # {}
             THEN LET k == CHOOSE k \in exist : TRUE IN
                  /\ shop.cart[k].qty < MaxQty
                  /\ shop' = [shop EXCEPT !.cart[k].qty = shop.cart[k].qty + 1]
             ELSE /\ Len(shop.cart) < MaxCart
                  /\ shop' = [shop EXCEPT
                                !.cart = Append(shop.cart, CartItem(CHOOSE p \in found : TRUE))]
  /\ UNCHANGED <<clock, products, vouchers, orders, nextOrderId, req, vresp,
                 nextVoucherId, cre>>

\* toggleCartItem: the checkbox of an item in the list of the cart.
ToggleCartItem ==
  /\ shop.cartOpen /\ shop.cartStep = 1
  /\ \E k \in 1..Len(shop.cart) :
       shop' = [shop EXCEPT !.cart[k].checked = ~shop.cart[k].checked]
  /\ UNCHANGED <<clock, products, vouchers, orders, nextOrderId, req, vresp,
                 nextVoucherId, cre>>

\* cart.filter(i => i.checked)
Checked(cart) == SelectSeq(cart, LAMBDA i : i.checked)

\* cart.filter(i => !i.checked)
Unchecked(cart) == SelectSeq(cart, LAMBDA i : ~i.checked)

\* checked.reduce((s, i) => s + i.price * i.qty, 0)
RECURSIVE Subtotal(_)
Subtotal(items) ==
  IF items = <<>> THEN 0
  ELSE items[1].price * items[1].qty + Subtotal(Tail(items))

\* The total updateCkTotal shows with the discount subtracted from every item.
CkTotalPerItem(cart, applied) ==
  LET RECURSIVE Sum(_)
      Sum(items) == IF items = <<>> THEN 0
                    ELSE Max(0, items[1].price * items[1].qty - applied.discount_amount)
                         + Sum(Tail(items))
  IN Sum(Checked(cart))

\* updateCkTotal: Math.max(0, subtotal - discount) over the checked items.
CkTotal(cart, applied) == Max(0, Subtotal(Checked(cart)) - applied.discount_amount)

\* openCart: the list of the cart, no voucher applied.
OpenCart ==
  /\ shop.order = "closed" /\ ~shop.cartOpen
  /\ shop' = [shop EXCEPT !.cartOpen = TRUE, !.cartStep = 1,
                          !.ckAppliedVoucher = NoApplied]
  /\ UNCHANGED <<clock, products, vouchers, orders, nextOrderId, req, vresp,
                 nextVoucherId, cre>>

\* proceedToCheckout: with a checked item the checkout form is shown, its
\* voucher reset and its total computed.
ProceedToCheckout ==
  /\ shop.cartOpen /\ shop.cartStep = 1
  /\ Checked(shop.cart) # <<>>
  /\ shop' = [shop EXCEPT !.ckAppliedVoucher = NoApplied,
                          !.ckTotal = CkTotal(shop.cart, NoApplied),
                          !.cartStep = 2]
  /\ UNCHANGED <<clock, products, vouchers, orders, nextOrderId, req, vresp,
                 nextVoucherId, cre>>

\* applyCkVoucher: as applyVoucher, for the checkout form; the total is
\* computed anew.
ApplyCkVoucher ==
  /\ shop.cartOpen /\ shop.cartStep = 2
  /\ \E typed \in TypedCodes :
       IF TypedCode(typed) = <<>>
       THEN UNCHANGED <<vresp, shop>>
       ELSE /\ ValidateCall({TypedCode(typed)})
            /\ shop' = [shop EXCEPT
                          !.ckAppliedVoucher = AppliedFrom(vresp'),
                          !.ckTotal = CkTotal(shop.cart, AppliedFrom(vresp'))]
  /\ UNCHANGED <<clock, products, vouchers, orders, nextOrderId, req,
                 nextVoucherId, cre>>

\* One turn of the loop of submitCartOrder: the request for the item.
SendItem(r, item) ==
  Arrive(r, {StoreBody(item.productId, item.qty, shop.ckAppliedVoucher)})

\* submitCartOrder up to its first await: the checked items are taken, the
\* button is disabled and the request for the first item sent.
SubmitCartOrder ==
  /\ shop.cartOpen /\ shop.cartStep = 2 /\ ~shop.ckSending
  /\ Checked(shop.cart) # <<>>
  /\ \E r \in Reqs :
       /\ SendItem(r, Checked(shop.cart)[1])
       /\ shop' = [shop EXCEPT !.ckSending = TRUE, !.ckSlot = r,
                               !.checkedItems = Checked(shop.cart),
                               !.next = 1, !.codes = <<>>]
  /\ UNCHANGED <<clock, products, vouchers, orders, nextOrderId, vresp,
                 nextVoucherId, cre>>

\* The script's variables when submitCartOrder returns.
CartSubmitted(page) ==
  [page EXCEPT !.ckSending = FALSE, !.ckSlot = 0, !.checkedItems = <<>>,
               !.next = 0, !.codes = <<>>]

\* The checked items are removed from the cart with the first answer, before
\* the other items are ordered.
CartAnsweredRemovesEarly ==
  /\ shop.ckSending /\ req[shop.ckSlot].pc = "done"
  /\ LET resp == req[shop.ckSlot].resp IN
     IF resp.success
     THEN LET page == [shop EXCEPT !.codes = Append(shop.codes, resp.order_code),
                                   !.cart = Unchecked(shop.cart)]
          IN IF shop.next < Len(shop.checkedItems)
             THEN \E r \in Reqs :
                    /\ SendItem(r, shop.checkedItems[shop.next + 1])
                    /\ shop' = [page EXCEPT !.next = shop.next + 1, !.ckSlot = r]
             ELSE /\ shop' = CartSubmitted([page EXCEPT !.cartOpen = FALSE])
                  /\ UNCHANGED req
     ELSE /\ shop' = CartSubmitted(
                       IF resp.error \in {"INVALID_VOUCHER", "VOUCHER_LIMIT"}
                       THEN [shop EXCEPT !.ckAppliedVoucher = NoApplied,
                                         !.ckTotal = CkTotal(shop.cart, NoApplied)]
                       ELSE shop)
          /\ UNCHANGED req
  /\ UNCHANGED <<clock, products, vouchers, orders, nextOrderId, vresp,
                 nextVoucherId, cre>>

\* submitCartOrder after an await: a success is noted and the next item
\* sent, or after the last item the checked items are removed and the cart
\* closed; an error ends the loop, a voucher error also resets the voucher.
CartAnswered ==
  /\ shop.ckSending /\ req[shop.ckSlot].pc = "done"
  /\ LET resp == req[shop.ckSlot].resp IN
     IF resp.success
     THEN LET page == [shop EXCEPT !.codes = Append(shop.codes, resp.order_code)] IN
          IF shop.next < Len(shop.checkedItems)
          THEN \E r \in Reqs :
                 /\ SendItem(r, shop.checkedItems[shop.next + 1])
                 /\ shop' = [page EXCEPT !.next = shop.next + 1, !.ckSlot = r]
          ELSE /\ shop' = CartSubmitted([page EXCEPT !.cart = Unchecked(shop.cart),
                                                     !.cartOpen = FALSE])
               /\ UNCHANGED req
     ELSE /\ shop' = CartSubmitted(
                       IF resp.error \in {"INVALID_VOUCHER", "VOUCHER_LIMIT"}
                       THEN [shop EXCEPT !.ckAppliedVoucher = NoApplied,
                                         !.ckTotal = CkTotal(shop.cart, NoApplied)]
                       ELSE shop)
          /\ UNCHANGED req
  /\ UNCHANGED <<clock, products, vouchers, orders, nextOrderId, vresp,
                 nextVoucherId, cre>>

\* ------------------------------------------------------------------ specification
Next ==
  \/ \E r \in Reqs : Receive(r)
  \/ \E r \in Reqs : LookupProduct(r)
  \/ \E r \in Reqs : ReadVoucher(r)
  \/ \E r \in Reqs : IncrementVoucher(r)
  \/ \E r \in Reqs : InsertOrder(r)
  \/ ToggleVoucher
  \/ Tick

Spec == Init /\ [][Next]_vars

\* The storefront's two endpoints side by side: validate calls between the
\* steps of order requests that carry a voucher code.
VoucherBodies ==
  {b \in Bodies : /\ b.customer_ok /\ b.product_id = 1 /\ b.quantity = <<>>
                  /\ b.voucher_code \in {<<"a">>, <<"B">>}}

ReceiveVoucher(r) == ReceiveFrom(r, VoucherBodies)

NextValidate ==
  \/ \E r \in Reqs : ReceiveVoucher(r)
  \/ \E r \in Reqs : LookupProduct(r)
  \/ \E r \in Reqs : ReadVoucher(r)
  \/ \E r \in Reqs : IncrementVoucher(r)
  \/ \E r \in Reqs : InsertOrder(r)
  \/ Validate
  \/ ToggleVoucher
  \/ Tick

SpecValidate == Init /\ [][NextValidate]_vars


\* The admin's voucher screen next to the storefront: a voucher is created,
\* vouchers are listed, switched and deleted while order requests with a
\* voucher code and validate calls run. The voucher of Init has the amount 2
\* and the limit MaxLimit.
InitAdmin ==
  /\ Init
  /\ \A v \in vouchers : v.discount_amount = 2 /\ v.usage_limit = MaxLimit

AdminBodies ==
  {b \in Bodies : /\ b.customer_ok /\ b.product_id = 1 /\ b.quantity = <<>>
                  /\ b.voucher_code = <<"a">>}

ReceiveAdmin(r) == ReceiveFrom(r, AdminBodies)

ValidateAdmin == ValidateFrom({<<"a">>})

AdminCreateBodies ==
  {b \in CreateBodies : b.custom_code \in {<<>>, <<"a">>} /\ b.usage_limit = <<>>}

ReceiveCreateAdmin(c) == ReceiveCreateFrom(c, AdminCreateBodies)

NextVouchers ==
  \/ \E r \in Reqs : ReceiveAdmin(r)
  \/ \E r \in Reqs : LookupProduct(r)
  \/ \E r \in Reqs : ReadVoucher(r)
  \/ \E r \in Reqs : IncrementVoucher(r)
  \/ \E r \in Reqs : InsertOrder(r)
  \/ ReceiveCreateAdmin(1)
  \/ SelectExisting(1)
  \/ InsertVoucher(1)
  \/ ValidateAdmin
  \/ ListVouchers
  \/ ToggleVoucher
  \/ DeleteVoucher
  \/ Tick

SpecVouchers == InitAdmin /\ [][NextVouchers]_vars

\* The admin's voucher screen alone: concurrent create requests with custom
\* and generated codes, between switches and deletes.
NextCreate ==
  \/ \E c \in Creates : ReceiveCreate(c)
  \/ \E c \in Creates : SelectExisting(c)
  \/ \E c \in Creates : InsertVoucher(c)
  \/ ToggleVoucher
  \/ DeleteVoucher

SpecCreate == Init /\ [][NextCreate]_vars

\* The admin's product and order screens next to the storefront: products
\* are edited, switched and deleted, orders get a status or are deleted, the
\* voucher is switched or deleted, while order requests run.
ShopBodies ==
  {b \in Bodies : /\ b.customer_ok /\ b.product_id = 1 /\ b.quantity = <<2>>
                  /\ b.voucher_code \in {<<>>, <<"a">>}}

ReceiveShop(r) == ReceiveFrom(r, ShopBodies)

NextShop ==
  \/ \E r \in Reqs : ReceiveShop(r)
  \/ \E r \in Reqs : LookupProduct(r)
  \/ \E r \in Reqs : ReadVoucher(r)
  \/ \E r \in Reqs : IncrementVoucher(r)
  \/ \E r \in Reqs : InsertOrder(r)
  \/ UpdateProduct
  \/ ToggleProduct
  \/ DeleteProduct
  \/ UpdateOrderStatus
  \/ DeleteOrder
  \/ ToggleVoucher
  \/ DeleteVoucher
  \/ Tick

SpecShop == InitAdmin /\ [][NextShop]_vars

\* The ways a customer types the code A: as it is, in lower case, with a
\* space after it, and in lower case after a space.
CodeVariants == {<<"A">>, <<"a">>, <<"A", " ">>, <<" ", "a">>}

CodeBodies ==
  [customer_ok : {TRUE}, product_id : {1}, quantity : {<<>>},
   voucher_code : CodeVariants]

ReceiveCodes(r) == ReceiveFrom(r, CodeBodies)

ValidateCodes == ValidateFrom({<<"A", " ">>, <<" ", "a">>})

NextCodes ==
  \/ \E r \in Reqs : ReceiveCodes(r)
  \/ \E r \in Reqs : LookupProduct(r)
  \/ \E r \in Reqs : ReadVoucher(r)
  \/ \E r \in Reqs : IncrementVoucher(r)
  \/ \E r \in Reqs : InsertOrder(r)
  \/ ValidateCodes
  \/ ToggleVoucher
  \/ Tick

SpecCodes == InitAdmin /\ [][NextCodes]_vars

\* The storefront with a datastore that answers every statement: a handler
\* that waits for the result of a statement goes on in the end. Nothing
\* makes a customer send a request, the admin switch the voucher or the
\* clock be read at another millisecond.
LiveBodies == {b \in Bodies : b.quantity = <<>> /\ b.product_id # 3}

ReceiveLive(r) == ReceiveFrom(r, LiveBodies)

NextLive ==
  \/ \E r \in Reqs : ReceiveLive(r)
  \/ \E r \in Reqs : LookupProduct(r)
  \/ \E r \in Reqs : ReadVoucher(r)
  \/ \E r \in Reqs : IncrementVoucher(r)
  \/ \E r \in Reqs : InsertOrder(r)
  \/ ToggleVoucher
  \/ Tick

StatementReturns(r) ==
  LookupProduct(r) \/ ReadVoucher(r) \/ IncrementVoucher(r) \/ InsertOrder(r)

SpecLive ==
  /\ InitAdmin
  /\ [][NextLive]_vars
  /\ \A r \in Reqs : WF_vars(StatementReturns(r))

\* Each request's limit check and increment as one step: while a request is
\* between its voucher SELECT and its UPDATE, no other request takes a step.
\* The voucher stays active and inside its window: no toggle, and the window
\* covers the whole run.
InitAtomic ==
  /\ clock = 0
  /\ products = {ProductRow(1, "Shirt", 3, 1), ProductRow(2, "Hat", 5, 0)}
  /\ \E amount \in Discounts, limit \in 1..MaxLimit :
       vouchers = {VoucherRow(1, <<"A">>, amount, ToISOString(0),
                              ToISOString(MaxClock), limit)}
  /\ orders = {}
  /\ nextOrderId = 1
  /\ req = [r \in Reqs |-> IdleReq]
  /\ vresp = NoValidate
  /\ nextVoucherId = 2
  /\ cre = [c \in Creates |-> IdleCreate]
  /\ shop = FreshPage

Exclusive(r) == \A q \in Reqs \ {r} : req[q].pc # "increment"

AtomicBodies ==
  {b \in Bodies : /\ b.customer_ok /\ b.product_id = 1
                  /\ b.voucher_code \in {<<"a">>, <<"A", " ">>}}

ReceiveAtomic(r) == ReceiveFrom(r, AtomicBodies)

NextAtomic ==
  \/ \E r \in Reqs : Exclusive(r) /\ ReceiveAtomic(r)
  \/ \E r \in Reqs : Exclusive(r) /\ LookupProduct(r)
  \/ \E r \in Reqs : Exclusive(r) /\ ReadVoucher(r)
  \/ \E r \in Reqs : IncrementVoucher(r)
  \/ \E r \in Reqs : Exclusive(r) /\ InsertOrder(r)
  \/ Tick

SpecAtomic == InitAtomic /\ [][NextAtomic]_vars

\* Orders and validate calls with the same codes, one of them of spaces only,
\* while the voucher is switched and time passes.
DecideCodes == {<<" ">>, <<"a">>}

DecideBodies ==
  {b \in Bodies : /\ b.customer_ok /\ b.product_id = 1 /\ b.quantity = <<>>
                  /\ b.voucher_code \in DecideCodes}

ReceiveDecide(r) == ReceiveFrom(r, DecideBodies)

ValidateDecide == ValidateFrom(DecideCodes)

NextDecide ==
  \/ \E r \in Reqs : ReceiveDecide(r)
  \/ \E r \in Reqs : LookupProduct(r)
  \/ \E r \in Reqs : ReadVoucher(r)
  \/ \E r \in Reqs : IncrementVoucher(r)
  \/ \E r \in Reqs : InsertOrder(r)
  \/ ValidateDecide
  \/ ToggleVoucher
  \/ Tick

SpecDecide == Init /\ [][NextDecide]_vars

\* One customer at the order popup of the storefront, another client's order
\* requests, and the admin switching and deleting the voucher.
OtherBodies ==
  {b \in Bodies : /\ b.customer_ok /\ b.product_id = 1 /\ b.quantity = <<>>
                  /\ b.voucher_code = <<"a">>}

ReceiveOther(r) == ReceiveFrom(r, OtherBodies)

NextStore ==
  \/ LoadProducts
  \/ OpenOrder
  \/ ApplyVoucher
  \/ SubmitOrder
  \/ OrderAnswered
  \/ \E r \in Reqs : ReceiveOther(r)
  \/ \E r \in Reqs : LookupProduct(r)
  \/ \E r \in Reqs : ReadVoucher(r)
  \/ \E r \in Reqs : IncrementVoucher(r)
  \/ \E r \in Reqs : InsertOrder(r)
  \/ ToggleVoucher
  \/ DeleteVoucher
  \/ Tick

SpecStore == Init /\ [][NextStore]_vars

\* The vouchers of the cart specification: 2 off for one use, or 7 off
\* without a limit.
CartVouchers == {[amount |-> 2, limit |-> 1], [amount |-> 7, limit |-> 0]}

\* One customer filling the cart and checking out. Both products are on sale
\* and the voucher is valid at all times.
InitCart ==
  /\ clock = 0
  /\ products = {ProductRow(1, "Shirt", 3, 1), ProductRow(2, "Hat", 5, 1)}
  /\ \E cfg \in CartVouchers :
       vouchers = {VoucherRow(1, <<"A">>, cfg.amount, ToISOString(0),
                              ToISOString(MaxClock), cfg.limit)}
  /\ orders = {}
  /\ nextOrderId = 1
  /\ req = [r \in Reqs |-> IdleReq]
  /\ vresp = NoValidate
  /\ nextVoucherId = 2
  /\ cre = [c \in Creates |-> IdleCreate]
  /\ shop = FreshPage

NextCart ==
  \/ LoadProducts
  \/ AddToCartFromCard
  \/ OpenCart
  \/ ToggleCartItem
  \/ ProceedToCheckout
  \/ ApplyCkVoucher
  \/ SubmitCartOrder
  \/ CartAnswered
  \/ \E r \in Reqs : LookupProduct(r)
  \/ \E r \in Reqs : ReadVoucher(r)
  \/ \E r \in Reqs : IncrementVoucher(r)
  \/ \E r \in Reqs : InsertOrder(r)
  \/ Tick

SpecCart == InitCart /\ [][NextCart]_vars

\* ------------------------------------------------------------------ claims
\* No handler is between two of its statements.
Quiescent == \A r \in Reqs : req[r].pc \in {"idle", "done"}

\* The request read a voucher row that passed the limit check.
Passed(r) == req[r].voucher.id # 0 /\ req[r].resp.error # "VOUCHER_LIMIT"

\* The request answered success.
Succeeded(r) == req[r].pc = "done" /\ req[r].resp.success

\* C1: in every reachable state every voucher row with usage_limit > 0 has
\* used_count <= usage_limit.
C1_UsedWithinLimit ==
  \A v \in vouchers : v.usage_limit > 0 => v.used_count <= v.usage_limit

\* C2: a request that has passed the limit check is never turned back by the
\* limit, whatever other requests did meanwhile: when it answers success its
\* order row carries the voucher's code and the discount of the row it read.
\* Two requests that read the same last unit can therefore both succeed
\* (C2_BothRedeemLastUnit is such a state).
C2_PassedCheckRedeems ==
  \A r \in Reqs :
    (req[r].pc = "done" /\ Passed(r)) =>
      /\ req[r].resp.error \notin {"VOUCHER_LIMIT", "INVALID_VOUCHER"}
      /\ req[r].resp.success =>
           /\ req[r].resp.discount = req[r].voucher.discount_amount
           /\ \E o \in orders :
                /\ o.id = req[r].resp.id
                /\ o.voucher_code = req[r].voucher.code
                /\ o.discount_amount = req[r].voucher.discount_amount

C2_BothRedeemLastUnit ==
  \E r1, r2 \in Reqs :
    /\ r1 # r2
    /\ Succeeded(r1) /\ Succeeded(r2)
    /\ req[r1].voucher = req[r2].voucher
    /\ req[r1].voucher.usage_limit > 0
    /\ req[r1].voucher.used_count = req[r1].voucher.usage_limit - 1
    /\ \A r \in {r1, r2} :
         \E o \in orders : /\ o.id = req[r].resp.id
                           /\ o.voucher_code = req[r].voucher.code
                           /\ o.discount_amount = req[r].voucher.discount_amount
                           /\ o.discount_amount > 0

\* C3: with the limit check and the increment of a request as one step, and a
\* voucher of usage_limit N that stays valid, the request that is the k-th to
\* read the voucher succeeds with the discount when k <= N and returns
\* VOUCHER_LIMIT without an order when k > N; once N requests have read it,
\* used_count is N.
C3_ExactlyNRedemptions ==
  \A v \in vouchers :
    /\ \A r \in Reqs :
         (req[r].pc = "done" /\ req[r].voucher.id = v.id) =>
           IF req[r].voucher.used_count < v.usage_limit
           THEN /\ req[r].resp.success
                /\ req[r].resp.discount = v.discount_amount
           ELSE /\ req[r].resp.error = "VOUCHER_LIMIT"
                /\ ~\E o \in orders : o.id = req[r].resp.id
    /\ (Quiescent /\
        Cardinality({r \in Reqs : req[r].voucher.id = v.id}) >= v.usage_limit)
         => v.used_count = v.usage_limit

\* C4: every order row has total_price = max(0, product_price * quantity -
\* discount_amount), so total_price >= 0; price 200000, quantity 2 and
\* discount 50000 give 350000.
C4_TotalIsClampedDifference ==
  /\ \A o \in orders :
       LET d == o.product_price * o.quantity - o.discount_amount IN
       /\ o.total_price = (IF d > 0 THEN d ELSE 0)
       /\ o.total_price >= 0
  /\ OrderTotal(200000, 2, 50000) = 350000

C4_DiscountAboveSubtotal ==
  \E o \in orders :
    /\ o.discount_amount > o.product_price * o.quantity
    /\ o.product_price * o.quantity > 0
    /\ o.total_price = 0

ValidationErrors ==
  {"Missing required fields", "Product not found", "INVALID_VOUCHER",
   "VOUCHER_LIMIT"}

\* The positions of a handler before its first write statement.
BeforeWrites == {"idle", "product", "voucher"}

\* C5: a request that fails validation performs no write: the failure is
\* decided at a position before the handler's first write statement, and no
\* step a handler takes from such a position changes the order rows or any
\* voucher row.
C5_FailedValidationWritesNothing ==
  [][\A r \in Reqs :
       /\ (req[r].pc # "done" /\ req'[r].pc = "done"
           /\ req'[r].resp.error \in ValidationErrors)
            => /\ req[r].pc \in BeforeWrites
               /\ req'[r].resp.status \in {400, 404}
       /\ (req[r].pc \in BeforeWrites /\ req'[r] # req[r])
            => /\ orders' = orders
               /\ vouchers' = vouchers
               /\ nextOrderId' = nextOrderId]_vars

C5_LimitRejected ==
  \E r \in Reqs :
    /\ req[r].pc = "done"
    /\ req[r].resp.error = "VOUCHER_LIMIT"
    /\ Cardinality(orders) = 1
    /\ \E v \in vouchers : v.id = req[r].voucher.id /\ v.used_count = v.usage_limit

\* C6: once no request is in flight, each voucher's used_count (which started
\* at 0) equals the number of order rows carrying its code.
C6_UsedCountEqualsOrders ==
  Quiescent =>
    \A v \in vouchers :
      v.used_count = Cardinality({o \in orders : o.voucher_code = v.code})

\* C7: when the INSERT of a request fails, the request answers 500 without
\* success, no order row is added and no voucher row changes; a request that
\* has answered takes no further step, and no step ever lowers a used_count.
C7_FailedInsertKeepsIncrement ==
  [][/\ \A r \in Reqs :
          /\ (req[r].pc = "insert" /\ req'[r].pc = "done"
              /\ ~req'[r].resp.success)
               => /\ req'[r].resp.status = 500
                  /\ orders' = orders
                  /\ vouchers' = vouchers
          /\ req[r].pc = "done" => req'[r] = req[r]
     /\ \A v \in vouchers :
          \E w \in vouchers' : w.id = v.id /\ w.used_count >= v.used_count]_vars

C7_IncrementWithoutOrder ==
  \E r \in Reqs :
    /\ req[r].pc = "done"
    /\ req[r].resp.status = 500
    /\ Passed(r)
    /\ Quiescent
    /\ \E v \in vouchers :
         /\ v.id = req[r].voucher.id
         /\ v.used_count = req[r].voucher.used_count + 1
         /\ ~\E o \in orders : o.voucher_code = v.code

\* C8: a validate call changes no voucher row, no order row and no product
\* row, whatever its input and outcome.
C8_ValidateIsPureRead ==
  [][vresp' # vresp =>
       /\ vouchers' = vouchers
       /\ orders' = orders
       /\ products' = products
       /\ nextOrderId' = nextOrderId]_vars

C8_ValidatedUnconsumed ==
  /\ vresp.status = 200
  /\ orders = {}
  /\ \E v \in vouchers :
       v.id = vresp.id /\ v.usage_limit > 0 /\ v.used_count = 0

\* The time an ISO string denotes.
ISOTime(s) == s[1] * 10 + s[2]

\* Some voucher row has the normalized code, is active and has now inside
\* its window, both bounds included.
ActiveMatch(vs, code, now) ==
  \E v \in vs :
    /\ v.code = NormalizeCode(code)
    /\ v.is_active = 1
    /\ ISOTime(v.valid_from) <= ISOTime(now)
    /\ ISOTime(now) <= ISOTime(v.valid_to)

\* C9: validate and the voucher step of an order request answer
\* INVALID_VOUCHER (400) exactly when no voucher row has the normalized code,
\* is_active = 1 and valid_from <= now <= valid_to for the now the request
\* read; the order request then ends without an order.
C9_InvalidIffNoActiveMatch ==
  [][/\ \A r \in Reqs :
          (req[r].pc = "voucher" /\ req'[r] # req[r]) =>
            LET match == ActiveMatch(vouchers, req[r].body.voucher_code, req[r].now)
            IN /\ (req'[r].resp.error = "INVALID_VOUCHER") <=> ~match
               /\ ~match => /\ req'[r].pc = "done"
                            /\ req'[r].resp.status = 400
                            /\ ~req'[r].resp.success
                            /\ orders' = orders
     /\ (vresp' # vresp /\ vresp'.code # <<>>) =>
          /\ (vresp'.error = "INVALID_VOUCHER")
               <=> ~ActiveMatch(vouchers, vresp'.code, vresp'.now)
          /\ vresp'.error = "INVALID_VOUCHER" => vresp'.status = 400]_vars

C9_KnownCodeRejected ==
  /\ vresp.error = "INVALID_VOUCHER"
  /\ \E v \in vouchers : v.code = NormalizeCode(vresp.code)
  /\ \E r \in Reqs : req[r].pc = "done" /\ req[r].resp.error = "INVALID_VOUCHER"

\* The limit condition on the row read.
AtLimit(v) == v.usage_limit > 0 /\ v.used_count >= v.usage_limit

\* C10: for a voucher that is active and inside its window, validate and the
\* voucher step of an order request answer VOUCHER_LIMIT (400) exactly when
\* the row they read has usage_limit > 0 and used_count >= usage_limit;
\* usage_limit 1 with used_count 1 is rejected, with used_count 0 accepted.
C10_LimitIffUsedUp ==
  [][/\ \A r \in Reqs :
          (req[r].pc = "voucher" /\ req'[r] # req[r]
           /\ req'[r].resp.error # "INVALID_VOUCHER") =>
            /\ req'[r].voucher \in vouchers
            /\ (req'[r].resp.error = "VOUCHER_LIMIT") <=> AtLimit(req'[r].voucher)
            /\ AtLimit(req'[r].voucher) => /\ req'[r].pc = "done"
                                           /\ req'[r].resp.status = 400
                                           /\ orders' = orders
            /\ ~AtLimit(req'[r].voucher) => req'[r].pc = "increment"
     /\ (vresp' # vresp /\ vresp'.error \notin {"MISSING_CODE", "INVALID_VOUCHER"}) =>
          \E v \in vouchers :
            /\ v.code = NormalizeCode(vresp'.code)
            /\ (vresp'.error = "VOUCHER_LIMIT" /\ vresp'.status = 400) <=> AtLimit(v)
            /\ (vresp'.status = 200 /\ vresp'.id = v.id) <=> ~AtLimit(v)
     /\ LimitReached([usage_limit |-> 1, used_count |-> 1])
     /\ ~LimitReached([usage_limit |-> 1, used_count |-> 0])]_vars

C10_UsedUpRejected ==
  /\ vresp.error = "VOUCHER_LIMIT"
  /\ \E r \in Reqs :
       /\ req[r].pc = "done"
       /\ req[r].resp.error = "VOUCHER_LIMIT"
       /\ req[r].voucher.usage_limit = req[r].voucher.used_count
  /\ \E r \in Reqs :
       /\ Succeeded(r)
       /\ req[r].voucher.usage_limit = 1
       /\ req[r].voucher.used_count = 0

\* The row is active, carries the normalized code and has now in its window.
Matches(v, code, now) ==
  /\ v.code = NormalizeCode(code)
  /\ v.is_active = 1
  /\ ISOTime(v.valid_from) <= ISOTime(now)
  /\ ISOTime(now) <= ISOTime(v.valid_to)

\* C11: a voucher with usage_limit = 0 that is active and inside its window is
\* never answered with VOUCHER_LIMIT, whatever its used_count: the voucher
\* step of an order request goes on to the increment with the voucher's
\* discount, and validate answers 200 with the voucher.
C11_UnlimitedNeverLimit ==
  [][/\ \A r \in Reqs :
          (req[r].pc = "voucher" /\ req'[r] # req[r]) =>
            \A v \in vouchers :
              (v.usage_limit = 0 /\ Matches(v, req[r].body.voucher_code, req[r].now)) =>
                /\ req'[r].resp.error # "VOUCHER_LIMIT"
                /\ req'[r].pc = "increment"
                /\ req'[r].voucher = v
                /\ req'[r].discount = v.discount_amount
     /\ vresp' # vresp =>
          \A v \in vouchers :
            (v.usage_limit = 0 /\ Matches(v, vresp'.code, vresp'.now)) =>
              /\ vresp'.error # "VOUCHER_LIMIT"
              /\ vresp'.status = 200
              /\ vresp'.id = v.id
              /\ vresp'.discount_amount = v.discount_amount]_vars

\* An order request passed on a row that had usage_limit 0 and was already
\* used, and validate accepts the voucher after two redemptions.
C11_UnlimitedUsedAgain ==
  /\ \E r \in Reqs :
       /\ Succeeded(r)
       /\ req[r].voucher.usage_limit = 0
       /\ req[r].voucher.used_count >= 1
  /\ vresp.status = 200
  /\ \E v \in vouchers :
       v.id = vresp.id /\ v.usage_limit = 0 /\ v.used_count >= 2

\* The columns the first version of the orders table has.
LegacyColumns ==
  {"id", "order_code", "product_id", "product_name", "product_price",
   "quantity", "total_price", "status"}

\* C12: an order request without a voucher code (absent, empty, whitespace)
\* creates a row with discount_amount 0, voucher_code '' and total_price =
\* product_price * quantity exactly, has read no voucher row, and its row
\* agrees with the row of the first, voucher-less handler on every column
\* that handler writes.
C12_NoCodeOrderIsLegacyOrder ==
  \A o \in orders :
    o.voucher_code = <<>> =>
      /\ o.discount_amount = 0
      /\ o.total_price = o.product_price * o.quantity
      /\ \A r \in Reqs :
           (Succeeded(r) /\ req[r].resp.id = o.id) => req[r].voucher = NoVoucher
      /\ LET legacy == LegacyOrderRow(o.id, o.order_code,
                                      [id |-> o.product_id, name |-> o.product_name,
                                       price |-> o.product_price], o.quantity)
         IN \A col \in LegacyColumns : o[col] = legacy[col]

\* C13: used_count of a voucher row that exists changes only by the increment
\* of an order request that passed voucher validation, and then by exactly 1;
\* validate, the admin's list, switch, create and delete leave the used_count
\* of every row they leave in the table as it is; a row that is new starts at
\* used_count 0.
C13_OnlyPassedOrdersCount ==
  [][/\ \A v \in vouchers : \A w \in vouchers' :
          (w.id = v.id /\ w.used_count # v.used_count) =>
            /\ w.used_count = v.used_count + 1
            /\ \E r \in Reqs :
                 /\ req[r].pc = "increment"
                 /\ req'[r].pc = "insert"
                 /\ req[r].voucher.id = v.id
                 /\ req[r].resp = NoResp
            /\ vresp' = vresp /\ cre' = cre
     /\ \A w \in vouchers' :
          (\A v \in vouchers : v.id # w.id) =>
            /\ w.used_count = 0
            /\ \E c \in Creates : cre[c].pc = "insert" /\ cre'[c].resp.id = w.id]_vars

\* A voucher that was redeemed has been switched off and validate has
\* refused it, next to a voucher the admin created, which has no use.
C13_RedeemedSwitchedCreated ==
  /\ \E v \in vouchers : v.id = 1 /\ v.used_count >= 1 /\ v.is_active = 0
  /\ \E w \in vouchers : w.id > 1 /\ w.used_count = 0
  /\ vresp.error = "INVALID_VOUCHER"

\* The columns an order row takes from the request, the product and the
\* voucher when it is inserted.
SnapshotColumns ==
  {"order_code", "product_id", "product_name", "product_price", "quantity",
   "voucher_code", "discount_amount", "total_price"}

\* C14: an order row keeps its product_name, product_price, quantity,
\* voucher_code, discount_amount and total_price (and its order_code and
\* product_id) as long as it is in the table, under product edit, switch and
\* delete, voucher switch and delete, other orders and status updates; a step
\* that changes a row changes its status only, changes one row, and writes no
\* other table.
C14_OrderSnapshotIsFrozen ==
  [][\A o \in orders : \A n \in orders' :
       n.id = o.id =>
         /\ \A col \in SnapshotColumns : n[col] = o[col]
         /\ n # o =>
              /\ n = [o EXCEPT !.status = n.status]
              /\ \A x \in orders : x.id # o.id => x \in orders'
              /\ Cardinality(orders') = Cardinality(orders)
              /\ products' = products
              /\ vouchers' = vouchers
              /\ req' = req]_vars

\* A confirmed order carries a price and a voucher code that are in no
\* other table any more: its product was edited and its voucher deleted.
C14_OrderOutlivesItsSources ==
  \E o \in orders :
    /\ o.status = "confirmed"
    /\ o.voucher_code # <<>>
    /\ o.discount_amount > 0
    /\ \E p \in products : p.id = o.product_id /\ p.price # o.product_price
    /\ \A v \in vouchers : v.code # o.voucher_code

\* The four answers of the checks before the INSERT.
CheckFailures ==
  {<<400, "Missing required fields">>, <<404, "Product not found">>,
   <<400, "INVALID_VOUCHER">>, <<400, "VOUCHER_LIMIT">>}

\* C15: an order request that has returned has exactly one of six outcomes:
\* success with order_code, discount and total, and then exactly one order row
\* is its row; one of the four check failures, with its status; or an error
\* of the datastore with status 500. A request that has not returned has no
\* response. The successful requests and the order rows match one to one.
C15_OneOutcomePerRequest ==
  /\ \A r \in Reqs :
       LET resp == req[r].resp IN
       IF req[r].pc # "done" THEN resp = NoResp
       ELSE \/ /\ resp.success /\ resp.status = 200 /\ resp.error = ""
               /\ Cardinality({o \in orders : o.id = resp.id}) = 1
               /\ \A o \in orders :
                    o.id = resp.id => /\ o.order_code = resp.order_code
                                      /\ o.discount_amount = resp.discount
                                      /\ o.total_price = resp.total
            \/ /\ ~resp.success
               /\ <<resp.status, resp.error>> \in CheckFailures
               /\ resp.id = 0 /\ resp.order_code = <<>>
            \/ /\ ~resp.success
               /\ resp.status = 500
               /\ resp.error \notin {"", "Missing required fields", "Product not found",
                                     "INVALID_VOUCHER", "VOUCHER_LIMIT"}
               /\ resp.id = 0 /\ resp.order_code = <<>>
  /\ \A o \in orders :
       Cardinality({r \in Reqs : Succeeded(r) /\ req[r].resp.id = o.id}) = 1

\* One request has its order, the other was answered 500 by the failed INSERT.
C15_SuccessNextToFailure ==
  /\ \E r \in Reqs : Succeeded(r) /\ \E o \in orders : o.id = req[r].resp.id
  /\ \E r \in Reqs : req[r].pc = "done" /\ req[r].resp.status = 500
  /\ Cardinality(orders) = 1

\* C16: the checks run in the order required fields, product, voucher, and
\* the first that fails ends the request. The first step of a request goes on
\* to the product SELECT only with all required fields and otherwise answers
\* 'Missing required fields' (400), whatever product_id and voucher_code are;
\* the product step answers 'Product not found' (404) when no row has the id
\* or the row is inactive, whatever the voucher_code, having read no voucher
\* row and changed none, and goes on otherwise; a voucher answer is given by
\* the voucher step only, for a request that holds its product.
C16_ChecksInOrder ==
  [][\A r \in Reqs :
       /\ (req[r].pc = "idle" /\ req'[r] # req[r]) =>
            /\ \/ /\ req'[r].pc = "product"
                  /\ req'[r].body.customer_ok
                  /\ req'[r].body.product_id # 0
               \/ /\ req'[r].pc = "done"
                  /\ req'[r].resp = ErrorResp(400, "Missing required fields")
            /\ req'[r].product = NoProduct /\ req'[r].voucher = NoVoucher
            /\ vouchers' = vouchers /\ orders' = orders
       /\ (req[r].pc = "product" /\ req'[r] # req[r]) =>
            LET active == \E p \in products :
                            p.id = req[r].body.product_id /\ p.is_active = 1
            IN /\ req[r].voucher = NoVoucher
               /\ ~active => /\ req'[r].pc = "done"
                             /\ req'[r].resp = ErrorResp(404, "Product not found")
               /\ active => /\ req'[r].pc \in {"voucher", "insert"}
                            /\ req'[r].product \in products
               /\ req'[r].voucher = NoVoucher
               /\ vouchers' = vouchers /\ orders' = orders
       /\ (req'[r].resp.error \in {"INVALID_VOUCHER", "VOUCHER_LIMIT"}
           /\ req[r].resp = NoResp) =>
            /\ req[r].pc = "voucher"
            /\ req[r].product.id = req[r].body.product_id
            /\ req[r].product.is_active = 1]_vars

\* One request was refused for a missing field, the other for its product,
\* while the voucher is active, inside its window and unused.
C16_RefusedBeforeVoucher ==
  /\ \E r \in Reqs :
       req[r].pc = "done" /\ req[r].resp.error = "Missing required fields"
  /\ \E r \in Reqs :
       /\ req[r].pc = "done"
       /\ req[r].resp.error = "Product not found"
       /\ req[r].voucher = NoVoucher
  /\ \E v \in vouchers :
       /\ v.is_active = 1 /\ v.used_count = 0
       /\ ISOTime(v.valid_from) <= clock /\ clock <= ISOTime(v.valid_to)

IsSpaces(s) == \A k \in 1..Len(s) : s[k] = " "

SameLetter(a, b) == a = b \/ {a, b} = {"a", "A"}

\* The input is the code up to letter case and spaces around it.
Variant(input, code) ==
  \E i \in 0..Len(input) :
    /\ i + Len(code) <= Len(input)
    /\ IsSpaces(SubSeq(input, 1, i))
    /\ IsSpaces(SubSeq(input, i + Len(code) + 1, Len(input)))
    /\ \A k \in 1..Len(code) : SameLetter(input[i + k], code[k])

\* The row is active and has now in its window.
Usable(v, now) ==
  /\ v.is_active = 1
  /\ ISOTime(v.valid_from) <= ISOTime(now)
  /\ ISOTime(now) <= ISOTime(v.valid_to)

\* C17: for a stored voucher and an input that is its code up to letter case
\* and surrounding whitespace, validate and the voucher step of an order
\* request answer what they answer for the code itself: the answer the row
\* decides, with the row's discount; and the order row stores the code of
\* the voucher row, which is the trimmed upper-case form of the input.
C17_CodeMatchedNormalized ==
  [][/\ \A r \in Reqs : \A v \in vouchers :
          (req[r].pc = "voucher" /\ req'[r] # req[r]
           /\ Variant(req[r].body.voucher_code, v.code)) =>
            IF ~Usable(v, req[r].now)
            THEN req'[r].resp = ErrorResp(400, "INVALID_VOUCHER")
            ELSE IF AtLimit(v)
            THEN req'[r].resp = ErrorResp(400, "VOUCHER_LIMIT")
            ELSE /\ req'[r].pc = "increment"
                 /\ req'[r].voucher = v
                 /\ req'[r].discount = v.discount_amount
     /\ \A v \in vouchers :
          (vresp' # vresp /\ Variant(vresp'.code, v.code)) =>
            IF ~Usable(v, vresp'.now)
            THEN vresp'.status = 400 /\ vresp'.error = "INVALID_VOUCHER"
            ELSE IF AtLimit(v)
            THEN vresp'.status = 400 /\ vresp'.error = "VOUCHER_LIMIT"
            ELSE /\ vresp'.status = 200
                 /\ vresp'.id = v.id
                 /\ vresp'.vcode = v.code
                 /\ vresp'.discount_amount = v.discount_amount
     /\ \A r \in Reqs :
          (req[r].pc = "insert" /\ req'[r].resp.success) =>
            \A o \in orders' \ orders :
              /\ o.voucher_code = req[r].voucher.code
              /\ Variant(req[r].body.voucher_code, o.voucher_code)
              /\ o.discount_amount = req[r].voucher.discount_amount]_vars

\* An order stores the code A with the voucher's discount while a request
\* that typed the code with a space and in lower case is between its voucher
\* SELECT and its increment, and validate has accepted the code typed with a
\* space after it.
C17_TypedOtherwiseAccepted ==
  /\ \E o \in orders : o.voucher_code = <<"A">> /\ o.discount_amount > 0
  /\ \E r \in Reqs :
       /\ req[r].pc = "increment"
       /\ req[r].body.voucher_code = <<" ", "a">>
       /\ req[r].voucher.code = <<"A">>
  /\ vresp.status = 200 /\ vresp.code = <<"A", " ">> /\ vresp.vcode = <<"A">>

\* C18: no two order rows have the same order_code. An INSERT whose code is
\* the code of a row, as when two requests took their code from the same
\* millisecond, adds no row and the request answers 500; any other INSERT
\* adds exactly the one row with the request's code.
C18_OrderCodesUnique ==
  /\ [](\A o1 \in orders : \A o2 \in orders :
          o1.order_code = o2.order_code => o1 = o2)
  /\ [][\A r \in Reqs :
          (req[r].pc = "insert" /\ req'[r] # req[r]) =>
            IF \E o \in orders : o.order_code = req[r].orderCode
            THEN /\ orders' = orders
                 /\ req'[r].resp.status = 500
                 /\ ~req'[r].resp.success
            ELSE /\ Cardinality(orders') = Cardinality(orders) + 1
                 /\ \E o \in orders' \ orders : o.order_code = req[r].orderCode
                 /\ req'[r].resp.success
                 /\ req'[r].resp.order_code = req[r].orderCode]_vars

\* Of two requests one has the only order row and the other was answered
\* 500 for the order_code.
C18_SecondInsertRefused ==
  \E r1 \in Reqs : \E r2 \in Reqs :
    /\ Succeeded(r1)
    /\ req[r2].pc = "done"
    /\ req[r2].resp = ErrorResp(500, "UNIQUE constraint failed: orders.order_code")
    /\ \A o \in orders : o.order_code = req[r1].resp.order_code
    /\ orders # {}

\* C19: no two voucher rows have the same code, and every stored code is its
\* own trimmed upper-case form: it has no lower-case letter and no space at
\* either end. The INSERT of a create request whose final code is the code of
\* a row adds no row and the request answers 500; any other INSERT adds the
\* one row with the request's code.
C19_VoucherCodesUniqueNormalized ==
  /\ [](\A v1 \in vouchers : \A v2 \in vouchers : v1.code = v2.code => v1 = v2)
  /\ [](\A v \in vouchers :
          /\ \A k \in 1..Len(v.code) : v.code[k] # "a"
          /\ v.code # <<>> => v.code[1] # " " /\ v.code[Len(v.code)] # " "
          /\ v.code = ToUpperCase(Trim(v.code)))
  /\ [][\A c \in Creates :
          (cre[c].pc = "insert" /\ cre'[c] # cre[c]) =>
            IF \E v \in vouchers : v.code = cre[c].code
            THEN /\ vouchers' = vouchers
                 /\ cre'[c].resp = CreateResp(500, 0, <<>>)
            ELSE /\ Cardinality(vouchers') = Cardinality(vouchers) + 1
                 /\ \E w \in vouchers' \ vouchers :
                      /\ w.code = cre[c].code
                      /\ cre'[c].resp = CreateResp(200, w.id, w.code)]_vars

\* The custom code a was stored as A0 next to the voucher A, and a second
\* create request, whose code was still the code of a row, was answered 500.
C19_SuffixedCodeCollides ==
  /\ \E v \in vouchers : v.code = <<"A">>
  /\ \E c \in Creates :
       /\ cre[c].resp.status = 200
       /\ cre[c].resp.code = <<"A", "0">>
       /\ \E v \in vouchers : v.code = <<"A", "0">> /\ v.id = cre[c].resp.id
  /\ \E c \in Creates : cre[c].resp.status = 500
  /\ Cardinality(vouchers) = 2

\* How far a handler is.
Rank(pc) ==
  CASE pc = "idle" -> 0
    [] pc = "product" -> 1
    [] pc = "voucher" -> 2
    [] pc = "increment" -> 3
    [] pc = "insert" -> 4
    [] pc = "done" -> 5

\* C20: when every statement returns or throws, a request that has arrived
\* returns in the end; it has a response exactly when it has returned; every
\* step of a handler takes it further, so that no statement is issued twice
\* (no retry of the increment or of the INSERT) and none after the return;
\* and the step that decides a failure returns at once and writes no table.
C20_EveryRequestReturnsOnce ==
  /\ \A r \in Reqs : (req[r].pc # "idle") ~> (req[r].pc = "done")
  /\ [](\A r \in Reqs : (req[r].pc = "done") <=> (req[r].resp # NoResp))
  /\ [][\A r \in Reqs :
          req'[r] # req[r] =>
            /\ Rank(req'[r].pc) > Rank(req[r].pc)
            /\ req[r].resp = NoResp
            /\ req'[r].resp.status >= 400 =>
                 /\ req'[r].pc = "done"
                 /\ vouchers' = vouchers
                 /\ orders' = orders]_vars

\* Both requests have returned, one of them with a failure that was decided
\* after its increment.
C20_AllReturned ==
  /\ \A r \in Reqs : req[r].pc = "done" /\ req[r].resp.status # 0
  /\ \E r \in Reqs : req[r].resp.status = 500 /\ req[r].voucher.id # 0

\* C21: the product a request holds after its lookup is a row of the table
\* at the lookup, with the request's product id and is_active = 1, and a
\* request that found no such row inserts nothing; the INSERT writes the name
\* and price of the product the request holds, whatever the product row is
\* by then, and the response carries the order_code, discount_amount and
\* total_price of the row inserted.
C21_RowIsLookupSnapshot ==
  /\ [](\A r \in Reqs :
          req[r].pc \in {"voucher", "increment", "insert"} =>
            /\ req[r].product.id = req[r].body.product_id
            /\ req[r].product.is_active = 1)
  /\ [][\A r \in Reqs :
          /\ (req[r].pc = "product" /\ req'[r] # req[r]) =>
               IF \E p \in products : p.id = req[r].body.product_id /\ p.is_active = 1
               THEN req'[r].product \in products
               ELSE req'[r].pc = "done" /\ ~req'[r].resp.success /\ orders' = orders
          /\ (req[r].pc \in {"voucher", "increment"} /\ req'[r].pc # "done") =>
               req'[r].product = req[r].product
          /\ (req[r].pc = "insert" /\ req'[r].resp.success) =>
               \E o \in orders' :
                 /\ \A x \in orders : x.id # o.id
                 /\ o.product_id = req[r].product.id
                 /\ o.product_name = req[r].product.name
                 /\ o.product_price = req[r].product.price
                 /\ req'[r].resp.id = o.id
                 /\ req'[r].resp.order_code = o.order_code
                 /\ req'[r].resp.discount = o.discount_amount
                 /\ req'[r].resp.total = o.total_price
          /\ orders' # orders /\ Cardinality(orders') > Cardinality(orders) =>
               \E q \in Reqs : req[q].pc = "insert" /\ req'[q].resp.success]_vars

\* A request waits for its INSERT with the product as it was at the lookup,
\* while the product row has another price or is gone; an order of an
\* earlier request has the old name and price too.
C21_ProductChangedAfterLookup ==
  /\ \E r \in Reqs :
       /\ req[r].pc = "insert"
       /\ \A p \in products : p.id = req[r].product.id => p.price # req[r].product.price
  /\ \E o \in orders :
       /\ o.product_name = "Shirt" /\ o.product_price = 3
       /\ \A p \in products : p.id = o.product_id => p.name # o.product_name

\* The requests whose increment of the voucher has executed: they passed the
\* limit check for it and are at their INSERT or have returned.
Incremented(v) ==
  {r \in Reqs : /\ req[r].voucher.id = v.id
                /\ req[r].pc \in {"insert", "done"}
                /\ req[r].resp.error # "VOUCHER_LIMIT"}

\* C22: no increment is lost. The used_count of a voucher row in the table
\* is its initial value 0 plus the number of requests that passed the limit
\* check for it and executed their increment, at every moment and so once all
\* requests have finished; it is never smaller than the number of orders
\* with the voucher's code.
C22_NoLostIncrement ==
  \A v \in vouchers :
    /\ v.used_count = Cardinality(Incremented(v))
    /\ Quiescent =>
         v.used_count = Cardinality({r \in Reqs : Passed(r) /\ req[r].voucher.id = v.id})
    /\ v.used_count >= Cardinality({o \in orders : o.voucher_code = v.code})

\* All requests read the voucher row at used_count 0, before any of them
\* incremented it, all have their order, and used_count is their number.
C22_ConcurrentIncrementsAllCounted ==
  /\ \A r \in Reqs : Succeeded(r) /\ req[r].voucher.used_count = 0
  /\ \E v \in vouchers :
       /\ \A r \in Reqs : req[r].voucher.id = v.id
       /\ v.used_count = Cardinality(Reqs)
       /\ Cardinality({o \in orders : o.voucher_code = v.code}) = Cardinality(Reqs)

\* The order handler's decision q about a voucher is the validate result res:
\* both accept or both refuse, with the same error, and the discount applied
\* is the discount_amount validate returns.
SameDecision(res, q) ==
  /\ (res.status = 200) <=> (q.pc # "done")
  /\ res.status # 200 => q.resp.status = res.status /\ q.resp.error = res.error
  /\ res.status = 200 => q.discount = res.discount_amount

\* What POST /api/vouchers/validate answers is ValidateResult of the table it
\* reads, and the voucher SELECT of POST /api/orders decides as ValidateResult
\* does of the table it reads, for the request's code and time.
VoucherStepAsValidate ==
  /\ vresp' # vresp => vresp' = ValidateResult(vouchers, vresp'.code, vresp'.now)
  /\ \A r \in Reqs :
       req[r].pc = "voucher" /\ req'[r] # req[r] =>
         SameDecision(ValidateResult(vouchers, req[r].body.voucher_code,
                                     req[r].now), req'[r])

\* C23 as stated: for the same voucher table, the same time and the same
\* non-empty code, validate succeeds exactly when the order request passes its
\* voucher validation, fails with the same error code, and returns the
\* discount the order applies. The order request decides about its code
\* either in the voucher step or, when it skips that step, as it leaves
\* the product step.
C23_SameDecisionEveryNonEmptyCode ==
  [][/\ VoucherStepAsValidate
     /\ \A r \in Reqs :
          /\ req[r].pc = "product" /\ req'[r].pc = "insert"
          /\ req[r].body.voucher_code # <<>>
          => SameDecision(ValidateResult(vouchers, req[r].body.voucher_code,
                                         ToISOString(clock)), req'[r])]_vars

\* C23, amended: validate and the voucher step of POST /api/orders decide
\* identically for every code the order request takes to its voucher step,
\* and the codes it does not take there although they are non-empty are the
\* codes of spaces only, for which it applies no voucher and no discount.
C23_SameDecisionTrimmedCode ==
  [][/\ VoucherStepAsValidate
     /\ \A r \in Reqs :
          /\ req[r].pc = "product" /\ req'[r].pc = "insert"
          /\ req[r].body.voucher_code # <<>>
          => /\ IsSpaces(req[r].body.voucher_code)
             /\ req'[r].discount = 0
             /\ req'[r].voucher = NoVoucher]_vars

\* A validate call and an order request accepted the same voucher at the
\* same time with the same discount.
C23_BothAccepted ==
  /\ vresp.status = 200
  /\ \E r \in Reqs :
       /\ req[r].pc = "increment"
       /\ req[r].now = vresp.now
       /\ req[r].voucher.id = vresp.id
       /\ req[r].discount = vresp.discount_amount
       /\ NormalizeCode(req[r].body.voucher_code) = vresp.vcode

\* C28: every order row has a quantity of at least 1, whatever quantity the
\* request carried: a missing, zero or non-numeric quantity is stored as 1 and
\* a negative quantity is never stored.
C28_QuantityAtLeastOne == \A o \in orders : o.quantity >= 1

\* C29: the voucher fields of every order row are consistent. A row with
\* voucher_code '' has discount_amount 0, and the request that inserts it has
\* read no voucher. A row with a non-empty voucher_code is inserted by a
\* request that read a voucher and passed the validation with it: the row's
\* code is the trimmed upper-case code of the request and the code of that
\* voucher, the voucher as read was active, inside its window and under its
\* limit, and the row's discount_amount is the voucher's discount_amount as
\* read.
C29_VoucherFieldsConsistent ==
  /\ [](\A o \in orders : o.voucher_code = <<>> => o.discount_amount = 0)
  /\ [][\A r \in Reqs : \A o \in orders' \ orders :
          req[r].pc = "insert" /\ req'[r].resp.id = o.id =>
            IF o.voucher_code = <<>>
            THEN o.discount_amount = 0 /\ req[r].voucher = NoVoucher
            ELSE /\ o.voucher_code = Trim(ToUpperCase(req[r].body.voucher_code))
                 /\ req[r].voucher # NoVoucher
                 /\ o.voucher_code = req[r].voucher.code
                 /\ Matches(req[r].voucher, req[r].body.voucher_code, req[r].now)
                 /\ ~AtLimit(req[r].voucher)
                 /\ o.discount_amount = req[r].voucher.discount_amount]_vars

\* Two rows, one without a code and without a discount, one with the
\* voucher's code, typed in lower case, and the voucher's discount.
C29_RowsWithAndWithoutVoucher ==
  \E o1, o2 \in orders :
    /\ o1.voucher_code = <<>> /\ o1.discount_amount = 0
    /\ o2.voucher_code = <<"A">> /\ o2.discount_amount \in Discounts
    /\ \E r \in Reqs : Succeeded(r) /\ req[r].resp.id = o2.id
                        /\ req[r].voucher.code = o2.voucher_code
                        /\ req[r].voucher.discount_amount = o2.discount_amount

\* The voucher row with this id is deleted or switched off.
Withdrawn(id) == \A v \in vouchers : v.id = id => v.is_active = 0

VoucherErrors == {"INVALID_VOUCHER", "VOUCHER_LIMIT"}

\* C24: a successful validate reserves nothing. applyVoucher writes no table.
\* When the order request of the storefront, sent with the code of the
\* voucher validate had accepted, reads the voucher and finds no row of that
\* code that is active and under its limit (the voucher has meanwhile been
\* used up, switched off or deleted), it answers INVALID_VOUCHER or
\* VOUCHER_LIMIT and writes nothing; an order request that has answered an
\* error has inserted no order; and when the storefront receives a voucher
\* error it sets its applied voucher to none and keeps the popup open.
C24_ValidateReservesNothing ==
  /\ [](Cardinality(orders) = Cardinality({r \in Reqs : Succeeded(r)}))
  /\ [][/\ shop'.appliedVoucher # shop.appliedVoucher \/ vresp' # vresp
           => vouchers' = vouchers /\ orders' = orders /\ req' = req
        /\ \A r \in Reqs :
             /\ req[r].pc = "voucher" /\ req'[r] # req[r]
             /\ shop.sending /\ shop.slot = r
             /\ \A v \in vouchers :
                  v.code = req[r].body.voucher_code => v.is_active = 0 \/ AtLimit(v)
             => /\ req'[r].pc = "done" /\ ~req'[r].resp.success
                /\ req'[r].resp.status = 400
                /\ req'[r].resp.error \in VoucherErrors
                /\ vouchers' = vouchers /\ orders' = orders
        /\ /\ shop.sending /\ ~shop'.sending
           /\ req[shop.slot].resp.error \in VoucherErrors
           => /\ shop'.appliedVoucher = NoApplied
              /\ shop'.order = "open"
              /\ orders' = orders /\ vouchers' = vouchers]_vars

\* The customer's voucher was accepted by validate; by the time the order
\* request read it, it had been used up, switched off or deleted: the request
\* was refused, no order of this customer exists, and the storefront has no
\* voucher applied any more.
C24_AcceptedThenRefused ==
  /\ vresp.status = 200
  /\ shop.slot \in Reqs /\ ~shop.sending /\ shop.order = "open"
  /\ req[shop.slot].pc = "done"
  /\ req[shop.slot].resp.error \in VoucherErrors
  /\ shop.appliedVoucher = NoApplied
  /\ \A o \in orders : \E r \in Reqs \ {shop.slot} : req[r].resp.id = o.id

\* The loop of submitCartOrder sends the request for its next item.
SendsNext == shop.ckSending /\ shop'.ckSending /\ shop'.ckSlot # shop.ckSlot

\* submitCartOrder starts its loop.
SendsFirst == ~shop.ckSending /\ shop'.ckSending

\* The loop of submitCartOrder ends with the success of its last request.
AllSucceeded ==
  shop.ckSending /\ ~shop'.ckSending /\ req[shop.ckSlot].resp.success

\* The order row the j-th request of the checkout that ends has inserted.
RowOf(j) ==
  LET code == IF j = Len(shop.checkedItems)
              THEN req[shop.ckSlot].resp.order_code ELSE shop.codes[j]
  IN CHOOSE o \in orders : o.order_code = code

\* The requests of a checkout are sent one after the other, one per checked
\* item in the order of the cart, each when the one before has succeeded.
OnePerItem ==
  /\ SendsFirst =>
       /\ shop'.checkedItems = Checked(shop.cart) /\ shop'.next = 1
       /\ req'[shop'.ckSlot].body =
            StoreBody(Checked(shop.cart)[1].productId, Checked(shop.cart)[1].qty,
                      shop.ckAppliedVoucher)
  /\ SendsNext =>
       /\ req[shop.ckSlot].resp.success
       /\ shop'.next = shop.next + 1 /\ shop'.next <= Len(shop.checkedItems)
       /\ req'[shop'.ckSlot].body =
            StoreBody(shop.checkedItems[shop'.next].productId,
                      shop.checkedItems[shop'.next].qty, shop.ckAppliedVoucher)
  /\ AllSucceeded =>
       /\ shop.next = Len(shop.checkedItems)
       /\ Len(shop.codes) = shop.next - 1
       /\ \A j \in 1..shop.next : \E o \in orders : o = RowOf(j)

\* When the checkout ends in success and all its orders carry the code of
\* the voucher applied, every order has the whole discount, its total is
\* max(0, price * qty - discount) of its item, the voucher's used_count is
\* the one the first request read plus the number of items, and the total the
\* checkout shows is max(0, sum of price * qty - discount).
DiscountPerOrder ==
  LET applied == shop.ckAppliedVoucher
      k == Len(shop.checkedItems)
  IN AllSucceeded /\ applied # NoApplied
     /\ (\A j \in 1..k : RowOf(j).voucher_code = applied.code)
     => /\ \A j \in 1..k :
             /\ RowOf(j).discount_amount = applied.discount_amount
             /\ RowOf(j).total_price =
                  Max(0, shop.checkedItems[j].price * shop.checkedItems[j].qty
                         - applied.discount_amount)
        /\ \A v \in vouchers : v.id = applied.id =>
             \E r \in Reqs : /\ req[r].resp.id = RowOf(1).id
                             /\ v.used_count = req[r].voucher.used_count + k
        /\ shop.ckTotal = Max(0, Subtotal(shop.checkedItems) - applied.discount_amount)

ItemFailed ==
  shop.ckSending /\ ~shop'.ckSending /\ ~req[shop.ckSlot].resp.success

\* C27: a cart checkout removes the checked items from the cart only when the
\* request of every checked item has succeeded, and then removes them all.
\* When the request of the j-th item fails, the loop ends: no request is
\* sent for the items after it, the orders of the items 1..j-1 stay in the
\* table, the uses counted for them stay counted, and the cart keeps all its
\* items, checked as they were. No order is ever removed and no used_count
\* ever lowered.
C27_CartKeptUntilAllSucceed ==
  [][/\ Len(shop'.cart) < Len(shop.cart) =>
          /\ AllSucceeded
          /\ shop.next = Len(shop.checkedItems)
          /\ shop.checkedItems = Checked(shop.cart)
          /\ \A j \in 1..shop.next : \E o \in orders : o = RowOf(j)
          /\ shop'.cart = Unchecked(shop.cart)
     /\ AllSucceeded => shop'.cart = Unchecked(shop.cart) /\ ~shop'.cartOpen
     /\ SendsNext => req[shop.ckSlot].pc = "done" /\ req[shop.ckSlot].resp.success
     /\ ItemFailed =>
          /\ req[shop.ckSlot].pc = "done" /\ req' = req
          /\ shop'.cart = shop.cart
          /\ Checked(shop'.cart) = shop.checkedItems
          /\ shop'.cartOpen /\ shop'.cartStep = 2
          /\ Len(shop.codes) = shop.next - 1
          /\ \A j \in 1..(shop.next - 1) :
               \E o \in orders' : /\ o.order_code = shop.codes[j]
                                   /\ o.product_id = shop.checkedItems[j].productId
          /\ orders' = orders /\ vouchers' = vouchers
     /\ orders \subseteq orders'
     /\ \A v \in vouchers : \E w \in vouchers' :
          w.id = v.id /\ w.used_count >= v.used_count]_vars

\* A checkout of two items with a voucher of one use has ended: the first
\* item is ordered with the voucher and its use counted, the request of the
\* second was refused with VOUCHER_LIMIT, and the cart still holds both
\* items, checked, at the checkout form, with no voucher applied.
C27_SecondItemRefused ==
  /\ shop.cartOpen /\ shop.cartStep = 2 /\ ~shop.ckSending
  /\ Len(Checked(shop.cart)) = 2
  /\ shop.ckAppliedVoucher = NoApplied
  /\ Cardinality(orders) = 1
  /\ \A o \in orders : /\ o.voucher_code = <<"A">>
                        /\ o.product_id = Checked(shop.cart)[1].productId
  /\ \A v \in vouchers : v.used_count = 1
  /\ \E r \in Reqs : req[r].pc = "done" /\ req[r].resp.error = "VOUCHER_LIMIT"

====
